---- MODULE Spec2Model ----
(***************************************************************************)
(* Coordinate-transform pipeline of armeta-hack: tiling (two make_tiles    *)
(* variants), resize_and_pad, bounding-box conversion and clipping.        *)
(* The functions are pure; each specification draws the inputs of one      *)
(* group of functions in its initial state and its actions apply them.     *)
(***************************************************************************)
EXTENDS Integers, Naturals, Sequences, FiniteSets, TLC

VARIABLES
    \* make_tiles (src/tiling/tiler.py, notebook_experiments/tiler.py)
    img_h, img_w, tile_size, overlap_num, tiles_pc, coords,
    \* clip_bbox (src/preprocessing/bbox_utils.py)
    size, bbox, clipped, clipped2, clip_pc,
    \* resize_and_pad (src/preprocessing/resize_pad.py) and its caller
    in_h, in_w, target_size, rp, meta,
    \* convert_orig_to_preprocessed (src/preprocessing/bbox_utils.py)
    obox, pbox, box_pc,
    \* xywh_to_yolo (src/preprocessing/bbox_utils.py)
    yolo,
    \* run_yolo_on_image (armeta_backend/main.py, src/batch_detect_to_json.py)
    orig_shape, results, detections, annotations, det_pc,
    \* tile_box_to_full (src/tiling/tile_utils.py)
    box_xyxy, tile_coords, full_box, full_pc,
    \* label files of build_yolo_dataset and build_yolo_dataset_raw
    page_annots, lbl_lines, lbl_pc,
    \* make_tiles called with a decimal overlap_ratio
    overlap_ratio,
    \* train/val split of build_yolo_dataset and build_yolo_dataset_raw
    records, train_ratio, val_indices, img_files, lbl_files, split_pc,
    \* preprocess_all_pages (src/preprocessing/preprocess_page.py)
    pages, pre_target, page_k, out_dir, metadata, meta_json, pre_pc,
    \* one label line of build_yolo_dataset
    meta_target, box_p, label_line, line_pc,
    \* one label line of build_yolo_dataset_raw
    img_shape, page_size, raw_bbox, raw_line, raw_pc,
    \* /analyze and /docs/{doc_id}/report (armeta_backend/main.py)
    next_doc, store, uploads, response

tileVars == <<img_h, img_w, tile_size, overlap_num, tiles_pc, coords>>
clipVars == <<size, bbox, clipped, clipped2, clip_pc>>
resizeVars == <<in_h, in_w, target_size, rp>>
boxVars == <<meta, obox, pbox, box_pc>>
yoloVars == <<yolo>>
detVars == <<orig_shape, results, detections, annotations, det_pc>>
fullVars == <<box_xyxy, tile_coords, full_box, full_pc>>
lblVars == <<page_annots, lbl_lines, lbl_pc>>
extVars == <<yoloVars, detVars, fullVars, lblVars>>
ratioVars == <<overlap_ratio>>
splitVars ==
    <<records, train_ratio, val_indices, img_files, lbl_files, split_pc>>
pageVars ==
    <<pages, pre_target, page_k, out_dir, metadata, meta_json, pre_pc>>
lineVars == <<meta_target, box_p, label_line, line_pc>>
rawVars == <<img_shape, page_size, raw_bbox, raw_line, raw_pc>>
reportVars == <<next_doc, store, uploads, response>>
ext7Vars == <<reportVars>>
ext6Vars == <<rawVars, ext7Vars>>
ext5Vars == <<lineVars, ext6Vars>>
ext4Vars == <<pageVars, ext5Vars>>
ext3Vars == <<splitVars, ext4Vars>>
ext2Vars == <<ratioVars, ext3Vars>>
vars == <<tileVars, clipVars, resizeVars, boxVars, extVars, ext2Vars>>

----------------------------------------------------------------------------
(* Bounds *)

MaxSide == 7        \* image height and width range over 0..MaxSide
MaxTile == 3        \* tile_size ranges over 1..MaxTile
OverlapBits == 2    \* overlap_ratio = overlap_num / 2^OverlapBits
MaxClipSize == 2    \* clip size ranges over 1..MaxClipSize
ClipMargin == 1     \* box coordinates reach ClipMargin beyond [0, size]
MaxDim == 13        \* resize_and_pad: image sides range over 0..MaxDim
MaxTarget == 15     \* resize_and_pad: target_size ranges over 0..MaxTarget
RtMaxDim == 3       \* round trip: image sides range over 1..RtMaxDim
RtMaxTarget == 4    \* round trip: target_size ranges over 1..RtMaxTarget
RtMaxCoord == 1     \* round trip: box coordinates range over 0..RtMaxCoord
ConvMaxDen == 4     \* conversion: scales n/d with 1 <= n <= d <= ConvMaxDen
ConvMaxCoord == 2   \* conversion: box coordinates range over 0..ConvMaxCoord

----------------------------------------------------------------------------
(* Python arithmetic helpers *)

Max(a, b) == IF a >= b THEN a ELSE b
Min(a, b) == IF a <= b THEN a ELSE b

RECURSIVE Pow2(_)
Pow2(n) == IF n <= 0 THEN 1 ELSE 2 * Pow2(n - 1)

\* int(a / b) for b > 0: truncation toward zero
TruncDiv(a, b) == IF a >= 0 THEN a \div b ELSE -((-a) \div b)

\* list(range(0, stop, step)) for step >= 1
PyRange(stop, step) ==
    IF stop <= 0 THEN <<>>
    ELSE [i \in 1..((stop + step - 1) \div step) |-> (i - 1) * step]

\* len(seq[a:b]) for a sequence of length n (Python/numpy slice semantics)
SliceIndex(i, n) == IF i < 0 THEN Max(i + n, 0) ELSE Min(i, n)
SliceLen(a, b, n) == Max(0, SliceIndex(b, n) - SliceIndex(a, n))

----------------------------------------------------------------------------
(* Python float (IEEE-754 binary64) arithmetic, round-to-nearest-even.     *)
(* A natural number is a little-endian sequence of limbs in base           *)
(* 2^LimbBits; a float is [sg, m, e] with value sg * m * 2^e, where m has  *)
(* exactly MantBits bits, or is <<>> for zero. Subnormals, infinities and  *)
(* NaN do not occur for the magnitudes of the model.                      *)

LimbBits == 15
MantBits == 53
Base == Pow2(LimbBits)

Limb(a, i) == IF i <= Len(a) THEN a[i] ELSE 0

RECURSIVE BNorm(_)
BNorm(a) ==
    IF a = <<>> THEN a
    ELSE IF a[Len(a)] = 0 THEN BNorm(SubSeq(a, 1, Len(a) - 1)) ELSE a

RECURSIVE BFromInt(_)
BFromInt(n) == IF n = 0 THEN <<>> ELSE <<n % Base>> \o BFromInt(n \div Base)

RECURSIVE BToInt(_)
BToInt(a) == IF a = <<>> THEN 0 ELSE a[1] + Base * BToInt(Tail(a))

RECURSIVE BAddFrom(_, _, _, _)
BAddFrom(a, b, i, c) ==
    IF i > Max(Len(a), Len(b)) THEN (IF c = 0 THEN <<>> ELSE <<c>>)
    ELSE LET t == Limb(a, i) + Limb(b, i) + c
         IN <<t % Base>> \o BAddFrom(a, b, i + 1, t \div Base)
BAdd(a, b) == BAddFrom(a, b, 1, 0)

RECURSIVE BSubFrom(_, _, _, _)
BSubFrom(a, b, i, br) ==
    IF i > Len(a) THEN <<>>
    ELSE LET d == a[i] - Limb(b, i) - br
         IN IF d < 0 THEN <<d + Base>> \o BSubFrom(a, b, i + 1, 1)
            ELSE <<d>> \o BSubFrom(a, b, i + 1, 0)
\* a - b for a >= b
BSub(a, b) == BNorm(BSubFrom(a, b, 1, 0))

RECURSIVE BCmpAt(_, _, _)
BCmpAt(a, b, i) ==
    IF i = 0 THEN 0
    ELSE IF a[i] > b[i] THEN 1
    ELSE IF a[i] < b[i] THEN 0 - 1
    ELSE BCmpAt(a, b, i - 1)
\* -1, 0, 1 as a < b, a = b, a > b
BCmp(a, b) ==
    IF Len(a) > Len(b) THEN 1
    ELSE IF Len(a) < Len(b) THEN 0 - 1
    ELSE BCmpAt(a, b, Len(a))

RECURSIVE BMulSmallFrom(_, _, _, _)
BMulSmallFrom(a, c, i, carry) ==
    IF i > Len(a) THEN (IF carry = 0 THEN <<>> ELSE <<carry>>)
    ELSE LET t == a[i] * c + carry
         IN <<t % Base>> \o BMulSmallFrom(a, c, i + 1, t \div Base)
\* a * c for 0 <= c < Base
BMulSmall(a, c) == BNorm(BMulSmallFrom(a, c, 1, 0))

BShlLimbs(a, k) ==
    IF a = <<>> THEN <<>>
    ELSE [i \in 1..(Len(a) + k) |-> IF i <= k THEN 0 ELSE a[i - k]]
\* a * 2^n
BShl(a, n) == BShlLimbs(BMulSmall(a, Pow2(n % LimbBits)), n \div LimbBits)

\* floor(a / 2^n)
BShr(a, n) ==
    LET k == n \div LimbBits
        r == n % LimbBits
        t == IF k >= Len(a) THEN <<>> ELSE SubSeq(a, k + 1, Len(a))
    IN BNorm([i \in 1..Len(t) |->
                (t[i] \div Pow2(r))
                + (Limb(t, i + 1) % Pow2(r)) * Pow2(LimbBits - r)])

RECURSIVE BMulFrom(_, _, _)
BMulFrom(a, b, j) ==
    IF j > Len(b) THEN <<>>
    ELSE BAdd(BShlLimbs(BMulSmall(a, b[j]), j - 1), BMulFrom(a, b, j + 1))
BMul(a, b) == BMulFrom(a, b, 1)

RECURSIVE IntBitLen(_)
IntBitLen(n) == IF n = 0 THEN 0 ELSE 1 + IntBitLen(n \div 2)
BBitLen(a) ==
    IF a = <<>> THEN 0 ELSE LimbBits * (Len(a) - 1) + IntBitLen(a[Len(a)])

BIsOdd(a) == a # <<>> /\ a[1] % 2 = 1

\* one quotient digit of schoolbook long division: floor(r / d) for
\* r < d * Base, where the top limb of d is at least Base / 2; the estimate
\* from the two top limbs of r is at most 2 too large
RECURSIVE BDivFix(_, _, _)
BDivFix(r, d, qd) ==
    IF BCmp(BMulSmall(d, qd), r) > 0 THEN BDivFix(r, d, qd - 1) ELSE qd
BDivDigit(r, d) ==
    LET len == Len(d)
        est == (Limb(r, len + 1) * Base + Limb(r, len)) \div d[len]
    IN BDivFix(r, d, Min(est, Base - 1))

\* long division, limbs n[i], n[i-1], .., n[1] still to bring down
RECURSIVE BDivFrom(_, _, _, _, _)
BDivFrom(n, d, i, r, q) ==
    IF i = 0 THEN <<BNorm(q), r>>
    ELSE LET r1 == BNorm(<<n[i]>> \o r)
             qd == BDivDigit(r1, d)
         IN BDivFrom(n, d, i - 1, BSub(r1, BMulSmall(d, qd)), <<qd>> \o q)

\* <<floor(n / d), n - d * floor(n / d)>> for d # 0, both scaled so that the
\* top limb of the divisor is at least Base / 2 (the remainder is scaled too)
BDivMod(n, d) ==
    LET k == LimbBits - IntBitLen(d[Len(d)])
        dk == BShl(d, k)
        nk == BShl(n, k)
    IN BDivFrom(nk, dk, Len(nk), <<>>, <<>>)

FZero == [sg |-> 1, m |-> <<>>, e |-> 0]

\* the float nearest to sg * n * 2^e (ties to even); sticky says that the
\* exact value lies strictly above n * 2^e (a division remainder)
FRound(sg, n, e, sticky) ==
    LET len == BBitLen(n)
    IN IF len = 0 THEN FZero
       ELSE IF len <= MantBits
       THEN [sg |-> sg, m |-> BShl(n, MantBits - len), e |-> e - (MantBits - len)]
       ELSE LET d == len - MantBits
                q == BShr(n, d)
                rem == BSub(n, BShl(q, d))
                c == BCmp(rem, BShl(<<1>>, d - 1))
                up == c = 1 \/ (c = 0 /\ (sticky \/ BIsOdd(q)))
                q2 == IF up THEN BAdd(q, <<1>>) ELSE q
            IN IF BBitLen(q2) > MantBits
               THEN [sg |-> sg, m |-> BShr(q2, 1), e |-> e + d + 1]
               ELSE [sg |-> sg, m |-> q2, e |-> e + d]

\* float(n) for an int n
FFromInt(n) ==
    IF n >= 0 THEN FRound(1, BFromInt(n), 0, FALSE)
    ELSE FRound(0 - 1, BFromInt(0 - n), 0, FALSE)

FNeg(a) == IF a.m = <<>> THEN a ELSE [a EXCEPT !.sg = 0 - a.sg]

\* a * b
FMul(a, b) ==
    IF a.m = <<>> \/ b.m = <<>> THEN FZero
    ELSE FRound(a.sg * b.sg, BMul(a.m, b.m), a.e + b.e, FALSE)

\* a / b for b # 0
FDiv(a, b) ==
    IF a.m = <<>> THEN FZero
    ELSE LET qr == BDivMod(BShlLimbs(a.m, 4), b.m)
         IN FRound(a.sg * b.sg, qr[1], a.e - b.e - 4 * LimbBits, qr[2] # <<>>)

\* the exact sum of two dyadic numbers [sg, m, e] (m of any length)
DAdd(a, b) ==
    IF a.m = <<>> THEN b
    ELSE IF b.m = <<>> THEN a
    ELSE LET e == Min(a.e, b.e)
             x == BShl(a.m, a.e - e)
             y == BShl(b.m, b.e - e)
             c == BCmp(x, y)
         IN IF a.sg = b.sg THEN [sg |-> a.sg, m |-> BAdd(x, y), e |-> e]
            ELSE IF c = 0 THEN FZero
            ELSE IF c = 1 THEN [sg |-> a.sg, m |-> BSub(x, y), e |-> e]
            ELSE [sg |-> b.sg, m |-> BSub(y, x), e |-> e]

\* a + b
FAdd(a, b) == LET d == DAdd(a, b) IN FRound(d.sg, d.m, d.e, FALSE)

FSub(a, b) == FAdd(a, FNeg(b))

\* -1, 0, 1 as a < b, a = b, a > b
FCmp(a, b) ==
    LET d == DAdd(a, FNeg(b)) IN IF d.m = <<>> THEN 0 ELSE d.sg

\* int(a): truncation toward zero
FTrunc(a) ==
    IF a.m = <<>> THEN 0
    ELSE IF a.e >= 0 THEN a.sg * BToInt(BShl(a.m, a.e))
    ELSE a.sg * BToInt(BShr(a.m, 0 - a.e))

----------------------------------------------------------------------------
(* The functions a specification does not exercise stay idle *)

TileIdle ==
    /\ img_h = 0 /\ img_w = 0 /\ tile_size = 1 /\ overlap_num = 0
    /\ tiles_pc = "idle" /\ coords = <<>>

ClipIdle ==
    /\ size = 1 /\ bbox = <<0, 0, 0, 0>> /\ clipped = <<>> /\ clipped2 = <<>>
    /\ clip_pc = "idle"

ResizeIdle ==
    /\ in_h = 0 /\ in_w = 0 /\ target_size = 0 /\ rp = [status |-> "idle"]

BoxIdle ==
    /\ meta = [status |-> "idle"] /\ obox = <<0, 0, 0, 0>> /\ pbox = <<>>
    /\ box_pc = "idle"

YoloIdle == yolo = <<>>

DetIdle ==
    /\ orig_shape = <<1, 1>> /\ results = <<>> /\ detections = <<>>
    /\ annotations = <<>> /\ det_pc = "idle"

FullIdle ==
    /\ box_xyxy = <<>> /\ tile_coords = <<0, 0, 0, 0>> /\ full_box = <<>>
    /\ full_pc = "idle"

LblIdle == page_annots = <<>> /\ lbl_lines = <<>> /\ lbl_pc = "idle"

ExtIdle == YoloIdle /\ DetIdle /\ FullIdle /\ LblIdle

RatioIdle == overlap_ratio = FZero

SplitIdle ==
    /\ records = <<>>
    /\ train_ratio = FZero
    /\ val_indices = {}
    /\ img_files = {}
    /\ lbl_files = {}
    /\ split_pc = "idle"

PageIdle ==
    /\ pages = <<>>
    /\ pre_target = 0
    /\ page_k = 0
    /\ out_dir = {}
    /\ metadata = <<>>
    /\ meta_json = [exists |-> FALSE]
    /\ pre_pc = "idle"

LineIdle ==
    /\ meta_target = 0
    /\ box_p = <<0, 0, 0, 0>>
    /\ label_line = <<>>
    /\ line_pc = "idle"

RawIdle ==
    /\ img_shape = <<0, 0>>
    /\ page_size = [given |-> FALSE]
    /\ raw_bbox = <<0, 0, 0, 0>>
    /\ raw_line = <<>>
    /\ raw_pc = "idle"

ReportIdle ==
    /\ next_doc = 0
    /\ store = <<>>
    /\ uploads = <<>>
    /\ response = [op |-> "idle"]

Ext7Idle == ReportIdle
Ext6Idle == RawIdle /\ Ext7Idle
Ext5Idle == LineIdle /\ Ext6Idle
Ext4Idle == PageIdle /\ Ext5Idle
Ext3Idle == SplitIdle /\ Ext4Idle
Ext2Idle == RatioIdle /\ Ext3Idle

----------------------------------------------------------------------------
(* make_tiles *)

OverlapDen == Pow2(OverlapBits)
OverlapNums == (0 - 1)..(OverlapDen + 1)

\* stride = int(tile_size * (1 - overlap_ratio)); the ratios of the model are
\* multiples of 2^-OverlapBits, for which the double arithmetic is exact
\* (variant: rounded up instead of truncated)
StrideCeil(ts, ov) == 0 - ((0 - ts * (OverlapDen - ov)) \div OverlapDen)
Stride(ts, ov) == TruncDiv(ts * (OverlapDen - ov), OverlapDen)

\* tile.shape[0] == tile_size and tile.shape[1] == tile_size
\* (variant without the shape test)
TileShapeOkAlways(x0, y0, x1, y1, h, w, ts) == TRUE
TileShapeOk(x0, y0, x1, y1, h, w, ts) ==
    /\ SliceLen(y0, y1, h) = ts
    /\ SliceLen(x0, x1, w) = ts

\* clamp at image edges (tiler.py): <<x0, x1>> after the "if x1 > w" block
\* (variant without the clamp)
SrcClampNone(p0, n, ts) == <<p0, p0 + ts>>
SrcClamp(p0, n, ts) ==
    IF p0 + ts > n THEN <<n - ts, n>> ELSE <<p0, p0 + ts>>

\* inner loop of tiler.py; y0 is reassigned by the clamp and the new value
\* is seen by the following iterations of the same row
RECURSIVE SrcRow(_, _, _, _, _, _, _)
SrcRow(xs, i, y0, h, w, ts, acc) ==
    IF i > Len(xs) THEN acc
    ELSE LET cx == SrcClamp(xs[i], w, ts)
             cy == SrcClamp(y0, h, ts)
             x0 == cx[1]
             x1 == cx[2]
             ny0 == cy[1]
             y1 == cy[2]
         IN IF x0 < 0 \/ ny0 < 0
            THEN SrcRow(xs, i + 1, ny0, h, w, ts, acc)
            ELSE IF TileShapeOk(x0, ny0, x1, y1, h, w, ts)
                 THEN SrcRow(xs, i + 1, ny0, h, w, ts,
                             Append(acc, <<x0, ny0, x1, y1>>))
                 ELSE SrcRow(xs, i + 1, ny0, h, w, ts, acc)

\* outer loop of tiler.py: the tiles of row j, then those of the rows after
RECURSIVE SrcRows(_, _, _, _, _, _)
SrcRows(ys, j, xs, h, w, ts) ==
    IF j > Len(ys) THEN <<>>
    ELSE SrcRow(xs, 1, ys[j], h, w, ts, <<>>)
             \o SrcRows(ys, j + 1, xs, h, w, ts)

\* coords returned by src/tiling/tiler.py make_tiles (stride >= 1)
SrcMakeTiles(h, w, ts, stride) ==
    SrcRows(PyRange(h, stride), 1, PyRange(w, stride), h, w, ts)

\* window of notebook_experiments/tiler.py: x1 = min(x0 + ts, w),
\* x0 = max(x1 - ts, 0)
NbWindow(p0, n, ts) ==
    LET p1 == Min(p0 + ts, n) IN <<Max(p1 - ts, 0), p1>>

RECURSIVE NbRow(_, _, _, _, _, _, _)
NbRow(xs, i, y0, h, w, ts, acc) ==
    IF i > Len(xs) THEN acc
    ELSE LET cx == NbWindow(xs[i], w, ts)
             cy == NbWindow(y0, h, ts)
         IN IF TileShapeOk(cx[1], cy[1], cx[2], cy[2], h, w, ts)
            THEN NbRow(xs, i + 1, cy[1], h, w, ts,
                       Append(acc, <<cx[1], cy[1], cx[2], cy[2]>>))
            ELSE NbRow(xs, i + 1, cy[1], h, w, ts, acc)

RECURSIVE NbRows(_, _, _, _, _, _)
NbRows(ys, j, xs, h, w, ts) ==
    IF j > Len(ys) THEN <<>>
    ELSE NbRow(xs, 1, ys[j], h, w, ts, <<>>)
             \o NbRows(ys, j + 1, xs, h, w, ts)

\* coords returned by notebook_experiments/tiler.py make_tiles (stride >= 1)
NbMakeTiles(h, w, ts, stride) ==
    NbRows(PyRange(Max(h - ts + 1, 1), stride), 1,
           PyRange(Max(w - ts + 1, 1), stride), h, w, ts)

InitTile ==
    /\ img_h \in 0..MaxSide
    /\ img_w \in 0..MaxSide
    /\ tile_size \in 1..MaxTile
    /\ overlap_num \in OverlapNums
    /\ tiles_pc = "call"
    /\ coords = <<>>
    /\ ClipIdle /\ ResizeIdle /\ BoxIdle /\ ExtIdle
    /\ Ext2Idle

\* make_tiles of src/tiling/tiler.py
MakeTilesSrc ==
    /\ tiles_pc = "call"
    /\ LET stride == Stride(tile_size, overlap_num)
       IN IF stride <= 0
          THEN /\ tiles_pc' = "src_error"
               /\ coords' = <<>>
          ELSE /\ tiles_pc' = "src_done"
               /\ coords' = SrcMakeTiles(img_h, img_w, tile_size, stride)
    /\ UNCHANGED <<img_h, img_w, tile_size, overlap_num>>

\* make_tiles of notebook_experiments/tiler.py
MakeTilesNb ==
    /\ tiles_pc = "call"
    /\ LET stride == Stride(tile_size, overlap_num)
       IN IF stride <= 0
          THEN /\ tiles_pc' = "nb_error"
               /\ coords' = <<>>
          ELSE /\ tiles_pc' = "nb_done"
               /\ coords' = NbMakeTiles(img_h, img_w, tile_size, stride)
    /\ UNCHANGED <<img_h, img_w, tile_size, overlap_num>>

----------------------------------------------------------------------------
(* Tiling claims *)

OverlapInRange == 0 <= overlap_num /\ overlap_num < OverlapDen

TilesDone == tiles_pc \in {"src_done", "nb_done"}

Covered(px, py) ==
    \E i \in 1..Len(coords) :
        /\ coords[i][1] <= px /\ px < coords[i][3]
        /\ coords[i][2] <= py /\ py < coords[i][4]

AllPixelsCovered ==
    \A px \in 0..(img_w - 1), py \in 0..(img_h - 1) : Covered(px, py)

\* C1: src/tiling make_tiles covers every pixel of an image with
\* H, W >= tile_size when overlap_ratio is in [0,1) and stride >= 1.
C1_SrcCoverage ==
    (/\ tiles_pc = "src_done"
     /\ img_h >= tile_size /\ img_w >= tile_size
     /\ OverlapInRange) => AllPixelsCovered

\* a run of the src tiler whose last column and last row are clamped tiles
C1_Witness ==
    /\ tiles_pc = "src_done"
    /\ OverlapInRange
    /\ img_h > tile_size /\ img_w > tile_size
    /\ (img_w - tile_size) % Stride(tile_size, overlap_num) # 0
    /\ (img_h - tile_size) % Stride(tile_size, overlap_num) # 0
    /\ \E i \in 1..Len(coords) : coords[i][3] = img_w /\ coords[i][4] = img_h

\* C2: the notebook make_tiles (origins only up to H - tile_size and
\* W - tile_size) covers every pixel of an image with H, W >= tile_size,
\* the right and bottom edges included.
C2_NbCoverage ==
    (/\ tiles_pc = "nb_done"
     /\ img_h >= tile_size /\ img_w >= tile_size) => AllPixelsCovered

FarColumns == {coords[i][1] : i \in {k \in 1..Len(coords) : coords[k][3] = img_w}}
FarRows == {coords[i][2] : i \in {k \in 1..Len(coords) : coords[k][4] = img_h}}
NoTileTwice ==
    \A i, j \in 1..Len(coords) : coords[i] = coords[j] => i = j

\* C3: for H, W >= tile_size and stride >= 1 each make_tiles covers the far
\* edge exactly once: one column position with x1 = W, one row position with
\* y1 = H, and no tile rectangle emitted twice.
C3_FarEdgeOnce ==
    (/\ TilesDone
     /\ img_h >= tile_size /\ img_w >= tile_size)
    => /\ Cardinality(FarColumns) = 1
       /\ Cardinality(FarRows) = 1
       /\ NoTileTwice

\* C4: every tile emitted by either make_tiles, for any image size and any
\* stride >= 1, is exactly tile_size x tile_size and lies inside the image;
\* no tile is emitted when H < tile_size or W < tile_size.
C4_TileInvariant ==
    TilesDone =>
        /\ \A i \in 1..Len(coords) :
              /\ coords[i][3] - coords[i][1] = tile_size
              /\ coords[i][4] - coords[i][2] = tile_size
              /\ 0 <= coords[i][1] /\ coords[i][3] <= img_w
              /\ 0 <= coords[i][2] /\ coords[i][4] <= img_h
        /\ (img_h < tile_size \/ img_w < tile_size) => coords = <<>>

\* the notebook tiler run on an image narrower than the tile: nothing emitted
C4_Witness ==
    /\ tiles_pc = "nb_done"
    /\ 0 < img_w /\ img_w < tile_size /\ tile_size <= img_h
    /\ coords = <<>>

----------------------------------------------------------------------------
(* resize_and_pad *)

\* scale = target_size / max(h, w)
Scale(h, w, T) == FDiv(FFromInt(T), FFromInt(Max(h, w)))

\* round(a) of Python for a double a: the nearest int, ties to even
PyRound(a) ==
    IF a.m = <<>> THEN 0
    ELSE IF a.e >= 0 THEN a.sg * BToInt(BShl(a.m, a.e))
    ELSE LET d == 0 - a.e
             q == BShr(a.m, d)
             rem == BSub(a.m, BShl(q, d))
             c == BCmp(rem, BShl(<<1>>, d - 1))
             up == c = 1 \/ (c = 0 /\ BIsOdd(q))
         IN a.sg * (BToInt(q) + (IF up THEN 1 ELSE 0))

\* int(n * scale)
\* (variant: rounded to the nearest int instead of truncated)
ResizedDimRounded(n, scale) == PyRound(FMul(FFromInt(n), scale))
ResizedDim(n, scale) == FTrunc(FMul(FFromInt(n), scale))

\* <<pad_top, pad_bottom>> (likewise <<pad_left, pad_right>>)
\* (variants: operands reversed; both sides given the same padding)
PadSplitReversed(T, n) ==
    LET first == (n - T) \div 2 IN <<first, T - n - first>>
PadSplitSymmetric(T, n) == <<(T - n) \div 2, (T - n) \div 2>>
PadSplitAllFirst(T, n) == <<T - n, 0>>
PadSplit(T, n) ==
    LET first == (T - n) \div 2 IN <<first, T - n - first>>

\* resize_and_pad(img, target_size) for an image of shape (h, w): the values
\* it computes and how it ends. cv2.resize raises on an empty source or an
\* empty dsize; cv2.copyMakeBorder raises on a negative border.
ResizeAndPad(h, w, T) ==
    IF Max(h, w) = 0 THEN [status |-> "ZeroDivisionError"]
    ELSE LET scale == Scale(h, w, T)
             new_h == ResizedDim(h, scale)
             new_w == ResizedDim(w, scale)
             tb == PadSplit(T, new_h)
             lr == PadSplit(T, new_w)
         IN IF h = 0 \/ w = 0 \/ new_h <= 0 \/ new_w <= 0
            THEN [status |-> "cv2.error", scale |-> scale,
                  new_h |-> new_h, new_w |-> new_w]
            ELSE IF tb[1] < 0 \/ tb[2] < 0 \/ lr[1] < 0 \/ lr[2] < 0
            THEN [status |-> "cv2.error", scale |-> scale,
                  new_h |-> new_h, new_w |-> new_w]
            ELSE [status |-> "ok", scale |-> scale,
                  new_h |-> new_h, new_w |-> new_w,
                  pad_top |-> tb[1], pad_bottom |-> tb[2],
                  pad_left |-> lr[1], pad_right |-> lr[2],
                  out_h |-> new_h + tb[1] + tb[2],
                  out_w |-> new_w + lr[1] + lr[2]]

\* the call resize_and_pad(img, target_size=target_size)
ResizeAndPadCall ==
    /\ rp.status = "call"
    /\ rp' = ResizeAndPad(in_h, in_w, target_size)
    /\ UNCHANGED <<in_h, in_w, target_size>>

\* preprocess_all_pages: the metadata entry of a page that was resized
\* (variant: the right padding recorded as pad_left)
RecordMetaRightPad ==
    /\ rp.status = "ok"
    /\ box_pc = "page"
    /\ meta' = [scale |-> rp.scale, pad_left |-> rp.pad_right,
                pad_top |-> rp.pad_top, orig_width |-> in_w,
                orig_height |-> in_h, target_size |-> target_size]
    /\ box_pc' = "meta"
    /\ UNCHANGED <<obox, pbox>>
RecordMeta ==
    /\ rp.status = "ok"
    /\ box_pc = "page"
    /\ meta' = [scale |-> rp.scale, pad_left |-> rp.pad_left,
                pad_top |-> rp.pad_top, orig_width |-> in_w,
                orig_height |-> in_h, target_size |-> target_size]
    /\ box_pc' = "meta"
    /\ UNCHANGED <<obox, pbox>>

----------------------------------------------------------------------------
(* convert_orig_to_preprocessed *)

\* (variants: paddings swapped; padding not added)
ConvertSwappedPads(b, m) ==
    <<FAdd(FMul(FFromInt(b[1]), m.scale), FFromInt(m.pad_top)),
      FAdd(FMul(FFromInt(b[2]), m.scale), FFromInt(m.pad_left)),
      FMul(FFromInt(b[3]), m.scale),
      FMul(FFromInt(b[4]), m.scale)>>
ConvertNoPad(b, m) ==
    <<FMul(FFromInt(b[1]), m.scale),
      FMul(FFromInt(b[2]), m.scale),
      FMul(FFromInt(b[3]), m.scale),
      FMul(FFromInt(b[4]), m.scale)>>
\* convert_orig_to_preprocessed(x, y, w, h, meta) for b = <<x, y, w, h>>
ConvertOrigToPreprocessed(b, m) ==
    LET sc == m.scale
        pl == FFromInt(m.pad_left)
        pt == FFromInt(m.pad_top)
        x_p == FAdd(FMul(FFromInt(b[1]), sc), pl)
        y_p == FAdd(FMul(FFromInt(b[2]), sc), pt)
        w_p == FMul(FFromInt(b[3]), sc)
        h_p == FMul(FFromInt(b[4]), sc)
    IN <<x_p, y_p, w_p, h_p>>

\* the call convert_orig_to_preprocessed(x, y, w, h, meta)
Convert ==
    /\ box_pc = "meta"
    /\ pbox' = ConvertOrigToPreprocessed(obox, meta)
    /\ box_pc' = "converted"
    /\ UNCHANGED <<meta, obox>>

\* scales n/d as Python floats
ConvScales ==
    {FDiv(FFromInt(n), FFromInt(d)) : n \in 1..ConvMaxDen, d \in 1..ConvMaxDen}

ConvBoxes ==
    {<<100, 50, 200, 80>>}
    \cup ((0..ConvMaxCoord) \X (0..ConvMaxCoord)
          \X (0..ConvMaxCoord) \X (0..ConvMaxCoord))

\* metadata as loaded from the metadata JSON, any scale and padding
InitConvert ==
    /\ meta \in [scale : ConvScales, pad_left : {0, 10}, pad_top : {0, 20}]
    /\ obox \in ConvBoxes
    /\ pbox = <<>>
    /\ box_pc = "meta"
    /\ ResizeIdle /\ TileIdle /\ ClipIdle /\ ExtIdle
    /\ Ext2Idle

InitResize ==
    /\ in_h \in 0..MaxDim
    /\ in_w \in 0..MaxDim
    /\ target_size \in 0..MaxTarget
    /\ rp = [status |-> "call"]
    /\ BoxIdle /\ TileIdle /\ ClipIdle /\ ExtIdle
    /\ Ext2Idle

InitRoundTrip ==
    /\ in_h \in 1..RtMaxDim
    /\ in_w \in 1..RtMaxDim
    /\ target_size \in 1..RtMaxTarget
    /\ rp = [status |-> "call"]
    /\ meta = [status |-> "none"]
    /\ obox \in (0..RtMaxCoord) \X (0..RtMaxCoord)
                \X (0..RtMaxCoord) \X (0..RtMaxCoord)
    /\ pbox = <<>>
    /\ box_pc = "page"
    /\ TileIdle /\ ClipIdle /\ ExtIdle
    /\ Ext2Idle

----------------------------------------------------------------------------
(* clip_bbox *)

\* Box coordinates are multiples of 1/2 (exact in binary floating point):
\* the integer k stands for k/2.
Half(n) == 2 * n

\* clip_bbox(x, y, w, h, size) on half-unit coordinates
\* (variants: origin not clamped; width and height returned swapped; size
\* shrunk by the amount the origin was moved)
ClipBboxNoOrigin(b, sz) ==
    <<b[1], b[2],
      Max(Half(1), Min(b[3], Half(sz) - b[1])),
      Max(Half(1), Min(b[4], Half(sz) - b[2]))>>
ClipBboxSwapped(b, sz) ==
    LET x == Max(0, Min(b[1], Half(sz) - Half(1)))
        y == Max(0, Min(b[2], Half(sz) - Half(1)))
        w == Max(Half(1), Min(b[3], Half(sz) - x))
        h == Max(Half(1), Min(b[4], Half(sz) - y))
    IN <<x, y, h, w>>
ClipBboxShrunk(b, sz) ==
    LET x == Max(0, Min(b[1], Half(sz) - Half(1)))
        y == Max(0, Min(b[2], Half(sz) - Half(1)))
        w == Max(Half(1), Min(b[3] - (x - b[1]), Half(sz) - x))
        h == Max(Half(1), Min(b[4] - (y - b[2]), Half(sz) - y))
    IN <<x, y, w, h>>
ClipBbox(b, sz) ==
    LET x == Max(0, Min(b[1], Half(sz) - Half(1)))
        y == Max(0, Min(b[2], Half(sz) - Half(1)))
        w == Max(Half(1), Min(b[3], Half(sz) - x))
        h == Max(Half(1), Min(b[4], Half(sz) - y))
    IN <<x, y, w, h>>

ClipCoords(sz) == (0 - Half(ClipMargin))..(Half(sz) + Half(ClipMargin))

InitClip ==
    /\ size \in 1..MaxClipSize
    /\ bbox \in ClipCoords(size) \X ClipCoords(size)
                \X ClipCoords(size) \X ClipCoords(size)
    /\ clipped = <<>>
    /\ clipped2 = <<>>
    /\ clip_pc = "call"
    /\ TileIdle /\ ResizeIdle /\ BoxIdle /\ ExtIdle
    /\ Ext2Idle

\* first call of clip_bbox
Clip ==
    /\ clip_pc = "call"
    /\ clipped' = ClipBbox(bbox, size)
    /\ clip_pc' = "clipped"
    /\ UNCHANGED <<size, bbox, clipped2>>

\* clip_bbox applied to its own result
ClipAgain ==
    /\ clip_pc = "clipped"
    /\ clipped2' = ClipBbox(clipped, size)
    /\ clip_pc' = "reclipped"
    /\ UNCHANGED <<size, bbox, clipped>>

----------------------------------------------------------------------------
(* Clipping claims *)

\* C9: for every input box (negative coordinates, non-positive sizes, boxes
\* entirely outside the square) and every size >= 1, clip_bbox returns
\* 0 <= x <= size-1, 0 <= y <= size-1, w >= 1, h >= 1, x + w <= size and
\* y + h <= size.
C9_ClipInside ==
    clip_pc \in {"clipped", "reclipped"} =>
        /\ 0 <= clipped[1] /\ clipped[1] <= Half(size) - Half(1)
        /\ 0 <= clipped[2] /\ clipped[2] <= Half(size) - Half(1)
        /\ clipped[3] >= Half(1) /\ clipped[4] >= Half(1)
        /\ clipped[1] + clipped[3] <= Half(size)
        /\ clipped[2] + clipped[4] <= Half(size)

\* a box right of the square with a negative y and non-positive sizes
C9_Witness ==
    /\ clip_pc = "clipped"
    /\ bbox[1] > Half(size) /\ bbox[2] < 0
    /\ bbox[3] < 0 /\ bbox[4] = 0

\* C10: clip_bbox(clip_bbox(box, size), size) = clip_bbox(box, size).
C10_ClipIdempotent ==
    clip_pc = "reclipped" => clipped2 = clipped

\* a box that the first clip changed in origin and in size, clipped twice
C10_Witness ==
    /\ clip_pc = "reclipped"
    /\ clipped[1] # bbox[1] /\ clipped[3] # bbox[3]
    /\ clipped[3] # clipped[4]

----------------------------------------------------------------------------
(* Resize, conversion and round-trip claims *)

\* C5: every image resize_and_pad returns is exactly target_size x
\* target_size: pad_top + new_h + pad_bottom = T, pad_left + new_w +
\* pad_right = T.
C5_ExactTarget ==
    rp.status = "ok" =>
        /\ rp.out_h = target_size
        /\ rp.out_w = target_size
        /\ rp.pad_top + rp.new_h + rp.pad_bottom = target_size
        /\ rp.pad_left + rp.new_w + rp.pad_right = target_size

\* an image whose padding cannot be split evenly on either axis
C5_Witness ==
    /\ rp.status = "ok"
    /\ (target_size - rp.new_w) % 2 = 1
    /\ (target_size - rp.new_h) % 2 = 1

\* C6: for H, W >= 1 and T >= 1, scale > 0 and the truncated dimensions
\* satisfy new_h <= T and new_w <= T, so all four paddings are >= 0.
C6_NoOvershoot ==
    (/\ in_h >= 1 /\ in_w >= 1 /\ target_size >= 1
     /\ rp.status \in {"ok", "cv2.error"})
    => /\ FCmp(rp.scale, FZero) = 1
       /\ rp.new_h <= target_size
       /\ rp.new_w <= target_size
       /\ PadSplit(target_size, rp.new_h)[1] >= 0
       /\ PadSplit(target_size, rp.new_h)[2] >= 0
       /\ PadSplit(target_size, rp.new_w)[1] >= 0
       /\ PadSplit(target_size, rp.new_w)[2] >= 0
       /\ rp.status = "ok" =>
             /\ rp.pad_top >= 0 /\ rp.pad_bottom >= 0
             /\ rp.pad_left >= 0 /\ rp.pad_right >= 0

\* a square image whose float product h * scale falls just below T, so that
\* truncation gives T - 1 on the longer side
C6_Witness ==
    /\ rp.status = "ok"
    /\ in_h = in_w
    /\ rp.new_h = target_size - 1
    /\ rp.pad_bottom = 1

BoxAsFloats(b) == <<FFromInt(b[1]), FFromInt(b[2]), FFromInt(b[3]), FFromInt(b[4])>>

\* C7: convert_orig_to_preprocessed maps (x, y, w, h) to (x*scale + pad_left,
\* y*scale + pad_top, w*scale, h*scale); (100, 50, 200, 80) with scale 0.5,
\* pad_left 10, pad_top 20 maps to (60, 45, 100, 40).
C7_ConvertFormula ==
    box_pc = "converted" =>
        /\ pbox[1] = FAdd(FMul(FFromInt(obox[1]), meta.scale), FFromInt(meta.pad_left))
        /\ pbox[2] = FAdd(FMul(FFromInt(obox[2]), meta.scale), FFromInt(meta.pad_top))
        /\ pbox[3] = FMul(FFromInt(obox[3]), meta.scale)
        /\ pbox[4] = FMul(FFromInt(obox[4]), meta.scale)
        /\ (/\ obox = <<100, 50, 200, 80>>
            /\ meta.scale = FDiv(FFromInt(1), FFromInt(2))
            /\ meta.pad_left = 10 /\ meta.pad_top = 20)
           => pbox = BoxAsFloats(<<60, 45, 100, 40>>)

\* the scenario of the specification, converted
C7_Witness ==
    /\ box_pc = "converted"
    /\ obox = <<100, 50, 200, 80>>
    /\ meta.scale = FDiv(FFromInt(1), FFromInt(2))
    /\ meta.pad_left = 10 /\ meta.pad_top = 20
    /\ pbox = BoxAsFloats(<<60, 45, 100, 40>>)

\* the inverse mapping of the round-trip property:
\* ((x' - pad_left)/scale, (y' - pad_top)/scale, w'/scale, h'/scale)
InverseBox(pb, m) ==
    <<FDiv(FSub(pb[1], FFromInt(m.pad_left)), m.scale),
      FDiv(FSub(pb[2], FFromInt(m.pad_top)), m.scale),
      FDiv(pb[3], m.scale),
      FDiv(pb[4], m.scale)>>

\* exact arithmetic on dyadic numbers, to measure rounding errors
DMul(a, b) ==
    IF a.m = <<>> \/ b.m = <<>> THEN FZero
    ELSE [sg |-> a.sg * b.sg, m |-> BMul(a.m, b.m), e |-> a.e + b.e]
DAbsDiff(a, b) == LET d == DAdd(a, FNeg(b)) IN [d EXCEPT !.sg = 1]
DLeq(a, b) == LET d == DAdd(a, FNeg(b)) IN d.m = <<>> \/ d.sg = 0 - 1
DShift(a, k) == IF a.m = <<>> THEN a ELSE [a EXCEPT !.e = @ + k]

FromResize == box_pc = "converted" /\ rp.status = "ok"

\* C8 as stated: the inverse mapping reproduces the original box coordinates.
C8_RoundTripExact ==
    FromResize => InverseBox(pbox, meta) = BoxAsFloats(obox)

\* C8 as amended: the inverse mapping reproduces the original coordinates up
\* to floating-point rounding: for each coordinate c with padded value c' and
\* recovered value c'', |c'' - c| * scale <= 2^-50 * c'.
C8_RoundTripWithinRounding ==
    FromResize =>
        \A i \in 1..4 :
            DLeq(DAbsDiff(DMul(InverseBox(pbox, meta)[i], meta.scale),
                          DMul(FFromInt(obox[i]), meta.scale)),
                 DShift(pbox[i], 0 - 50))

\* a padded image and a box whose recovered x differs from the original
C8_Witness ==
    /\ FromResize
    /\ meta.pad_left > 0
    /\ obox[1] > 0
    /\ InverseBox(pbox, meta)[1] # FFromInt(obox[1])

----------------------------------------------------------------------------
(* xywh_to_yolo *)

YoloMaxSize == 3    \* xywh_to_yolo: size ranges over 1..YoloMaxSize

\* the double k/2 of a half-unit coordinate k
HalfToFloat(k) ==
    IF k = 0 THEN FZero ELSE [FFromInt(k) EXCEPT !.e = @ - 1]

\* xywh_to_yolo(x, y, w, h, size) on half-unit coordinates, in doubles
\* (variant: width and height not divided by size)
XywhToYoloUnscaled(b, sz) ==
    LET x == HalfToFloat(b[1])
        y == HalfToFloat(b[2])
        w == HalfToFloat(b[3])
        h == HalfToFloat(b[4])
        two == FFromInt(2)
        s == FFromInt(sz)
    IN <<FDiv(FAdd(x, FDiv(w, two)), s), FDiv(FAdd(y, FDiv(h, two)), s),
         w, h>>
XywhToYolo(b, sz) ==
    LET x == HalfToFloat(b[1])
        y == HalfToFloat(b[2])
        w == HalfToFloat(b[3])
        h == HalfToFloat(b[4])
        two == FFromInt(2)
        s == FFromInt(sz)
    IN <<FDiv(FAdd(x, FDiv(w, two)), s), FDiv(FAdd(y, FDiv(h, two)), s),
         FDiv(w, s), FDiv(h, s)>>

\* boxes reaching half a unit beyond the square on every side
YoloCoords(sz) == (0 - 1)..(Half(sz) + 1)

InitYolo ==
    /\ size \in 1..YoloMaxSize
    /\ bbox \in YoloCoords(size) \X YoloCoords(size)
                \X YoloCoords(size) \X YoloCoords(size)
    /\ clipped = <<>>
    /\ clipped2 = <<>>
    /\ clip_pc = "call"
    /\ yolo = <<>>
    /\ TileIdle /\ ResizeIdle /\ BoxIdle /\ DetIdle /\ FullIdle /\ LblIdle
    /\ Ext2Idle

\* xywh_to_yolo applied to the clipped box (build_yolo_dataset.py)
XywhToYoloCall ==
    /\ clip_pc = "clipped"
    /\ yolo' = XywhToYolo(clipped, size)
    /\ clip_pc' = "yolo"
    /\ UNCHANGED <<size, bbox, clipped, clipped2>>

\* C11: for every box first passed through clip_bbox with a given size,
\* xywh_to_yolo with the same size returns centre-x, centre-y, width and
\* height that all lie in (0, 1].
C11_YoloInUnitInterval ==
    clip_pc = "yolo" =>
        \A i \in 1..4 :
            /\ FCmp(yolo[i], FZero) > 0
            /\ FCmp(yolo[i], FFromInt(1)) <= 0

\* a box that sticks out of the square on the left and at the bottom, and a
\* size whose reciprocal is not a binary fraction
C11_Witness ==
    /\ clip_pc = "yolo"
    /\ size = 3
    /\ bbox[1] < 0 /\ bbox[2] + bbox[4] > Half(size)
    /\ FCmp(yolo[4], FFromInt(1)) < 0
    /\ FCmp(yolo[3], FFromInt(1)) = 0

----------------------------------------------------------------------------
(* run_yolo_on_image: the API (armeta_backend/main.py) and the batch script
   (src/batch_detect_to_json.py) *)

DetMaxDim == 3      \* detection: image sides range over 1..DetMaxDim
DetMaxBoxes == 2    \* detection: at most DetMaxBoxes boxes per result list

\* ID2LABEL of both files
ID2LABEL == (0 :> "signature") @@ (1 :> "stamp") @@ (2 :> "qr")

\* class ids the detector may return, among them ids ID2LABEL does not know
DetClassIds == (0 - 1)..3

\* max(0.0, min(1.0, v))
Clamp01(v) ==
    LET one == FFromInt(1)
        m == IF FCmp(v, one) < 0 THEN v ELSE one
    IN IF FCmp(m, FZero) > 0 THEN m ELSE FZero

\* the Detection the API builds for result r at enumerate index i
\* (variant: orig_shape read as (W, H))
ApiDetectionSwappedShape(r, i, shape) ==
    LET x1 == FFromInt(r.xyxy[1])
        y1 == FFromInt(r.xyxy[2])
        x2 == FFromInt(r.xyxy[3])
        y2 == FFromInt(r.xyxy[4])
        h_img == FFromInt(shape[2])
        w_img == FFromInt(shape[1])
        w_box == FSub(x2, x1)
        h_box == FSub(y2, y1)
    IN [id |-> i, label |-> ID2LABEL[r.cls],
        x |-> Clamp01(FDiv(x1, w_img)), y |-> Clamp01(FDiv(y1, h_img)),
        w |-> Clamp01(FDiv(w_box, w_img)), h |-> Clamp01(FDiv(h_box, h_img))]
ApiDetection(r, i, shape) ==
    LET x1 == FFromInt(r.xyxy[1])
        y1 == FFromInt(r.xyxy[2])
        x2 == FFromInt(r.xyxy[3])
        y2 == FFromInt(r.xyxy[4])
        h_img == FFromInt(shape[1])
        w_img == FFromInt(shape[2])
        w_box == FSub(x2, x1)
        h_box == FSub(y2, y1)
    IN [id |-> i, label |-> ID2LABEL[r.cls],
        x |-> Clamp01(FDiv(x1, w_img)), y |-> Clamp01(FDiv(y1, h_img)),
        w |-> Clamp01(FDiv(w_box, w_img)), h |-> Clamp01(FDiv(h_box, h_img))]

\* the loop of the API's run_yolo_on_image; i is the enumerate index
RECURSIVE ApiLoop(_, _, _, _)
ApiLoop(res, i, shape, acc) ==
    IF i >= Len(res) THEN acc
    ELSE IF res[i + 1].cls \notin DOMAIN ID2LABEL
         THEN ApiLoop(res, i + 1, shape, acc)
         ELSE ApiLoop(res, i + 1, shape,
                      Append(acc, ApiDetection(res[i + 1], i, shape)))

\* the annotation the batch script builds for result r at index i (from 1)
BatchAnnotation(r, i) ==
    LET x1 == FFromInt(r.xyxy[1])
        y1 == FFromInt(r.xyxy[2])
        x2 == FFromInt(r.xyxy[3])
        y2 == FFromInt(r.xyxy[4])
        w == FSub(x2, x1)
        h == FSub(y2, y1)
    IN [key |-> i,
        category |-> IF r.cls \in DOMAIN ID2LABEL THEN ID2LABEL[r.cls]
                     ELSE "unknown",
        bbox |-> [x |-> x1, y |-> y1, width |-> w, height |-> h],
        area |-> FMul(w, h)]

\* the loop of the batch script's run_yolo_on_image
RECURSIVE BatchLoop(_, _, _)
BatchLoop(res, i, acc) ==
    IF i > Len(res) THEN acc
    ELSE BatchLoop(res, i + 1, Append(acc, BatchAnnotation(res[i], i)))

\* one box (x1 <= x2, y1 <= y2) of a known class at every position of a
\* grid that reaches one pixel beyond the image
DetGridResults(shape) ==
    LET xs == (0 - 1)..(shape[2] + 1)
        ys == (0 - 1)..(shape[1] + 1)
    IN {<<[xyxy |-> b, cls |-> 0]>> :
            b \in {c \in xs \X ys \X xs \X ys : c[1] <= c[3] /\ c[2] <= c[4]}}

\* up to DetMaxBoxes copies of one box with every combination of class ids
RECURSIVE DetClassLists(_)
DetClassLists(n) ==
    IF n = 0 THEN {<<>>}
    ELSE LET shorter == DetClassLists(n - 1)
         IN shorter \cup
            {Append(s, [xyxy |-> <<0, 0, 1, 1>>, cls |-> c]) :
                <<s, c>> \in {t \in shorter : Len(t) = n - 1} \X DetClassIds}

InitDetect ==
    /\ orig_shape \in (1..DetMaxDim) \X (1..DetMaxDim)
    /\ results \in DetGridResults(orig_shape) \cup DetClassLists(DetMaxBoxes)
    /\ detections = <<>>
    /\ annotations = <<>>
    /\ det_pc = "call"
    /\ TileIdle /\ ClipIdle /\ ResizeIdle /\ BoxIdle /\ YoloIdle /\ FullIdle
    /\ LblIdle
    /\ Ext2Idle

\* run_yolo_on_image of the API
RunYoloApi ==
    /\ det_pc = "call"
    /\ detections' = ApiLoop(results, 0, orig_shape, <<>>)
    /\ det_pc' = "api_done"
    /\ UNCHANGED <<orig_shape, results, annotations>>

\* run_yolo_on_image of batch_detect_to_json
RunYoloBatch ==
    /\ det_pc = "call"
    /\ annotations' = BatchLoop(results, 1, <<>>)
    /\ det_pc' = "batch_done"
    /\ UNCHANGED <<orig_shape, results, detections>>

\* v, cut to [0, 1]: 0 below 0, 1 above 1, v itself in between
IsCut(c, v) ==
    /\ FCmp(c, FZero) >= 0 /\ FCmp(c, FFromInt(1)) <= 0
    /\ FCmp(v, FZero) <= 0 => c = FZero
    /\ FCmp(v, FFromInt(1)) >= 0 => c = FFromInt(1)
    /\ (FCmp(v, FZero) > 0 /\ FCmp(v, FFromInt(1)) < 0) => c = v

\* C12: in the API's run_yolo_on_image every emitted Detection has
\* x = x1/W, y = y1/H, w = (x2-x1)/W, h = (y2-y1)/H, each normalised by its
\* own image side and each cut to [0, 1], wherever the box lies.
C12_NormalisedAndClamped ==
    det_pc = "api_done" =>
        \A k \in 1..Len(detections) :
            LET d == detections[k]
                b == results[d.id + 1].xyxy
                H == FFromInt(orig_shape[1])
                W == FFromInt(orig_shape[2])
            IN /\ IsCut(d.x, FDiv(FFromInt(b[1]), W))
               /\ IsCut(d.y, FDiv(FFromInt(b[2]), H))
               /\ IsCut(d.w, FDiv(FFromInt(b[3] - b[1]), W))
               /\ IsCut(d.h, FDiv(FFromInt(b[4] - b[2]), H))

\* a box that starts left of a non-square image and ends below it: x is cut
\* to 0, h is cut to 1, y and w are proper fractions of different sides
C12_Witness ==
    /\ det_pc = "api_done"
    /\ Len(detections) = 1
    /\ orig_shape = <<2, 3>>
    /\ results[1].xyxy = <<0 - 1, 1, 1, 3>>
    /\ detections[1].x = FZero
    /\ detections[1].h = FFromInt(1)
    /\ detections[1].y = FDiv(FFromInt(1), FFromInt(2))
    /\ detections[1].w = FDiv(FFromInt(2), FFromInt(3))

\* the results of the detector whose class id ID2LABEL knows
KnownResults ==
    SelectSeq(results, LAMBDA r : r.cls \in DOMAIN ID2LABEL)

KnownLabels == {ID2LABEL[c] : c \in DOMAIN ID2LABEL}

\* C13: in every detection path (the API's and the batch script's
\* run_yolo_on_image) a result whose class id is outside {0, 1, 2} yields no
\* entry and no error: there is one entry per known result and every entry
\* carries a label in {signature, stamp, qr}.
C13_UnknownDropped ==
    /\ det_pc = "api_done" =>
          /\ Len(detections) = Len(KnownResults)
          /\ \A k \in 1..Len(detections) :
                detections[k].label \in KnownLabels
    /\ det_pc = "batch_done" =>
          /\ Len(annotations) = Len(KnownResults)
          /\ \A k \in 1..Len(annotations) :
                annotations[k].category \in KnownLabels

----------------------------------------------------------------------------
(* Stride validation of make_tiles *)

\* floor(tile_size * (1 - overlap_ratio))
FloorStride == (tile_size * (OverlapDen - overlap_num)) \div OverlapDen

TilesFailed == tiles_pc \in {"src_error", "nb_error"}

----------------------------------------------------------------------------
(* TransformMetadata of preprocess_all_pages *)

MetaMaxDim == 11     \* metadata: image sides range over 1..MetaMaxDim
MetaMaxTarget == 15  \* metadata: target_size ranges over 1..MetaMaxTarget

InitMeta ==
    /\ in_h \in 1..MetaMaxDim
    /\ in_w \in 1..MetaMaxDim
    /\ target_size \in 1..MetaMaxTarget
    /\ rp = [status |-> "call"]
    /\ meta = [status |-> "none"]
    /\ obox = <<0, 0, 0, 0>>
    /\ pbox = <<>>
    /\ box_pc = "page"
    /\ TileIdle /\ ClipIdle /\ ExtIdle
    /\ Ext2Idle

RoundedWidth == PyRound(FMul(FFromInt(meta.orig_width), meta.scale))
RoundedHeight == PyRound(FMul(FFromInt(meta.orig_height), meta.scale))

\* C15: for every image with H, W >= 1 and target size T, the metadata
\* produced from resize_and_pad satisfies
\* pad_left + round(orig_width * scale) <= target_size and
\* pad_top + round(orig_height * scale) <= target_size.
C15_MetaInvariant ==
    box_pc = "meta" =>
        /\ meta.pad_left + RoundedWidth <= meta.target_size
        /\ meta.pad_top + RoundedHeight <= meta.target_size

\* a page whose width rounds up past the truncated new_w and then fills the
\* square exactly, while its height leaves room
C15_Witness ==
    /\ box_pc = "meta"
    /\ RoundedWidth = rp.new_w + 1
    /\ meta.pad_left + RoundedWidth = meta.target_size
    /\ meta.pad_top + RoundedHeight < meta.target_size

----------------------------------------------------------------------------
(* Padding split of resize_and_pad *)

\* C16: padding is centred with any off-by-one going to the right/bottom:
\* pad_left = (T - new_w) // 2, pad_right = T - new_w - pad_left,
\* pad_top = (T - new_h) // 2, pad_bottom = T - new_h - pad_top, hence
\* pad_right - pad_left and pad_bottom - pad_top are 0 or 1.
C16_CentredPadding ==
    rp.status = "ok" =>
        /\ rp.pad_left = (target_size - rp.new_w) \div 2
        /\ rp.pad_right = target_size - rp.new_w - rp.pad_left
        /\ rp.pad_top = (target_size - rp.new_h) \div 2
        /\ rp.pad_bottom = target_size - rp.new_h - rp.pad_top
        /\ rp.pad_right - rp.pad_left \in {0, 1}
        /\ rp.pad_bottom - rp.pad_top \in {0, 1}

\* a tall image padded unevenly, by more than one pixel, left/right and
\* not at all top/bottom
C16_Witness ==
    /\ rp.status = "ok"
    /\ rp.pad_right - rp.pad_left = 1
    /\ rp.pad_left > 0
    /\ rp.pad_bottom = rp.pad_top
    /\ rp.new_h = target_size

----------------------------------------------------------------------------
(* Resized dimensions of resize_and_pad *)

\* resize_and_pad got as far as computing new_h and new_w
DimsComputed == rp.status \in {"ok", "cv2.error"}

ScaledHeight == FMul(FFromInt(in_h), rp.scale)
ScaledWidth == FMul(FFromInt(in_w), rp.scale)

\* n <= a < n + 1
IsTruncOf(n, a) ==
    /\ FCmp(FFromInt(n), a) <= 0
    /\ FCmp(a, FFromInt(n + 1)) < 0

\* C17 as stated: scale = T / max(H, W) and the resized height and width
\* are the nearest-integer roundings round(H*scale), round(W*scale).
C17_RoundedDims ==
    DimsComputed =>
        /\ rp.scale = FDiv(FFromInt(target_size), FFromInt(Max(in_h, in_w)))
        /\ rp.new_h = PyRound(ScaledHeight)
        /\ rp.new_w = PyRound(ScaledWidth)

\* C17: scale = T / max(H, W) and the resized height and width are H*scale
\* and W*scale truncated toward zero (int()), which is the nearest-integer
\* rounding or one less.
C17_TruncatedDims ==
    DimsComputed =>
        /\ rp.scale = FDiv(FFromInt(target_size), FFromInt(Max(in_h, in_w)))
        /\ IsTruncOf(rp.new_h, ScaledHeight)
        /\ IsTruncOf(rp.new_w, ScaledWidth)
        /\ PyRound(ScaledHeight) - rp.new_h \in {0, 1}
        /\ PyRound(ScaledWidth) - rp.new_w \in {0, 1}

\* a returning call whose width is one less than the rounding of W*scale
\* while its height equals the rounding of H*scale
C17_Witness ==
    /\ rp.status = "ok"
    /\ PyRound(ScaledWidth) = rp.new_w + 1
    /\ PyRound(ScaledHeight) = rp.new_h
    /\ rp.new_h = target_size

\* C18: whenever the input image has H = 0 or W = 0 (H = 0, W = 0, or both)
\* resize_and_pad fails with a dedicated invalid-dimension error, raised
\* before any resizing or padding is attempted.
C18_DedicatedError ==
    (rp.status # "call" /\ (in_h = 0 \/ in_w = 0)) =>
        rp.status = "InvalidDimensionError"

----------------------------------------------------------------------------
(* tile_box_to_full *)

TbMaxNum == 2       \* tile boxes: coordinates n/d with 0 <= n <= TbMaxNum
TbMaxDen == 3       \* tile boxes: and 1 <= d <= TbMaxDen
TbMaxOrigin == 1    \* tile origins x0, y0 range over 0..TbMaxOrigin

\* tile_box_to_full(box_xyxy, tile_coords): float corners plus int origin
\* (variant: the two offsets exchanged)
TileBoxToFullSwapped(b, t) ==
    <<FAdd(b[1], FFromInt(t[2])), FAdd(b[2], FFromInt(t[1])),
      FAdd(b[3], FFromInt(t[2])), FAdd(b[4], FFromInt(t[1]))>>
TileBoxToFull(b, t) ==
    <<FAdd(b[1], FFromInt(t[1])), FAdd(b[2], FFromInt(t[2])),
      FAdd(b[3], FFromInt(t[1])), FAdd(b[4], FFromInt(t[2]))>>

\* the doubles n/d a detector may report as tile-local coordinates
TileBoxCoords ==
    {FDiv(FFromInt(n), FFromInt(d)) : n \in 0..TbMaxNum, d \in 1..TbMaxDen}

\* tile-local boxes with x1 <= x2 and y1 <= y2
TileBoxes ==
    {b \in TileBoxCoords \X TileBoxCoords \X TileBoxCoords \X TileBoxCoords :
        FCmp(b[1], b[3]) <= 0 /\ FCmp(b[2], b[4]) <= 0}

\* placements (x0, y0, x1, y1) of a tile large enough for the boxes
TilePlacements ==
    {<<x0, y0, x0 + TbMaxNum, y0 + TbMaxNum>> :
        x0 \in 0..TbMaxOrigin, y0 \in 0..TbMaxOrigin}

InitFull ==
    /\ box_xyxy \in TileBoxes
    /\ tile_coords \in TilePlacements
    /\ full_box = <<>>
    /\ full_pc = "call"
    /\ TileIdle /\ ClipIdle /\ ResizeIdle /\ BoxIdle /\ YoloIdle /\ DetIdle
    /\ LblIdle
    /\ Ext2Idle

TileBoxToFullCall ==
    /\ full_pc = "call"
    /\ full_box' = TileBoxToFull(box_xyxy, tile_coords)
    /\ full_pc' = "done"
    /\ UNCHANGED <<box_xyxy, tile_coords>>

\* the offset added to corner coordinate i
TileOffset(i) ==
    FFromInt(IF i \in {1, 3} THEN tile_coords[1] ELSE tile_coords[2])

\* the result with the tile origin subtracted again
RestoredBox == [i \in 1..4 |-> FSub(full_box[i], TileOffset(i))]

\* C19 as stated: the result is (x1+x0, y1+y0, x2+x0, y2+y0), the width and
\* the height of the box are unchanged, and subtracting (x0, y0) from the
\* result restores the tile-local box.
C19_TranslationExact ==
    full_pc = "done" =>
        /\ \A i \in 1..4 : full_box[i] = FAdd(box_xyxy[i], TileOffset(i))
        /\ FSub(full_box[3], full_box[1]) = FSub(box_xyxy[3], box_xyxy[1])
        /\ FSub(full_box[4], full_box[2]) = FSub(box_xyxy[4], box_xyxy[2])
        /\ \A i \in 1..4 : RestoredBox[i] = box_xyxy[i]

\* every coordinate of the box is a whole number
WholeBox == \A i \in 1..4 : FFromInt(FTrunc(box_xyxy[i])) = box_xyxy[i]

\* C19 as amended: each result coordinate is the double nearest to the
\* translated one (within 2^-53 of it, relatively); the width, the height and
\* the box restored by subtracting the origin agree with the tile-local ones
\* within 2^-51 resp. 2^-52 of the translated coordinate, and exactly when
\* the coordinates are whole numbers.
C19_TranslationWithinRounding ==
    full_pc = "done" =>
        /\ \A i \in 1..4 :
              LET exact == DAdd(box_xyxy[i], TileOffset(i))
              IN /\ DLeq(DAbsDiff(full_box[i], exact), DShift(exact, 0 - 53))
                 /\ DLeq(DAbsDiff(RestoredBox[i], box_xyxy[i]),
                         DShift(full_box[i], 0 - 52))
        /\ \A i \in 1..2 :
              DLeq(DAbsDiff(FSub(full_box[i + 2], full_box[i]),
                            FSub(box_xyxy[i + 2], box_xyxy[i])),
                   DShift(full_box[i + 2], 0 - 51))
        /\ WholeBox => C19_TranslationExact

\* a box at a tile with a non-zero origin whose restored x1 differs from the
\* tile-local x1
C19_Witness ==
    /\ full_pc = "done"
    /\ tile_coords[1] > 0
    /\ tile_coords[2] = 0
    /\ RestoredBox[1] # box_xyxy[1]
    /\ RestoredBox[2] = box_xyxy[2]

----------------------------------------------------------------------------
(* Label files of build_yolo_dataset and build_yolo_dataset_raw *)

LblMaxAnns == 3     \* label files: at most LblMaxAnns annotations per page

\* CLASS_MAP of both builders
\* (variant: the ids of stamp and qr exchanged)
ClassMapSwapped == ("signature" :> 0) @@ ("stamp" :> 2) @@ ("qr" :> 1)
CLASS_MAP == ("signature" :> 0) @@ ("stamp" :> 1) @@ ("qr" :> 2)

\* categories an annotation file may carry, two of them not in CLASS_MAP
Categories == {"signature", "stamp", "qr", "logo", "unknown"}

RECURSIVE AnnotLists(_)
AnnotLists(n) ==
    IF n = 0 THEN {<<>>}
    ELSE LET shorter == AnnotLists(n - 1)
         IN shorter \cup
            {Append(s, [category |-> c]) :
                <<s, c>> \in {t \in shorter : Len(t) = n - 1} \X Categories}

\* the loop that writes one label file: a line per annotation whose category
\* is in CLASS_MAP; ann is the position of the annotation the line's four
\* numbers were computed from
RECURSIVE LabelLoop(_, _, _)
LabelLoop(annots, k, acc) ==
    IF k > Len(annots) THEN acc
    ELSE IF annots[k].category \notin DOMAIN CLASS_MAP
         THEN LabelLoop(annots, k + 1, acc)
         ELSE LabelLoop(annots, k + 1,
                        Append(acc, [cid |-> CLASS_MAP[annots[k].category],
                                     ann |-> k]))

InitLabels ==
    /\ page_annots \in AnnotLists(LblMaxAnns)
    /\ lbl_lines = <<>>
    /\ lbl_pc = "call"
    /\ TileIdle /\ ClipIdle /\ ResizeIdle /\ BoxIdle /\ YoloIdle /\ DetIdle
    /\ FullIdle
    /\ Ext2Idle

\* label file of one image in build_yolo_dataset (warns, then skips)
WriteLabels ==
    /\ lbl_pc = "call"
    /\ lbl_lines' = LabelLoop(page_annots, 1, <<>>)
    /\ lbl_pc' = "written"
    /\ UNCHANGED page_annots

\* label file of one image in build_yolo_dataset_raw (skips silently)
WriteLabelsRaw ==
    /\ lbl_pc = "call"
    /\ lbl_lines' = LabelLoop(page_annots, 1, <<>>)
    /\ lbl_pc' = "written_raw"
    /\ UNCHANGED page_annots

LabelsWritten == lbl_pc \in {"written", "written_raw"}

\* positions of the annotations with a known category
KnownAnnots ==
    {k \in 1..Len(page_annots) :
        page_annots[k].category \in {"signature", "stamp", "qr"}}

\* C20: an annotation whose category is outside {signature, stamp, qr} is
\* skipped and processing continues: the label file of an image holds
\* exactly one line per annotation with a known category, in annotation
\* order, with class id signature = 0, stamp = 1, qr = 2, and no line for
\* an unknown category.
C20_LabelLines ==
    LabelsWritten =>
        /\ Len(lbl_lines) = Cardinality(KnownAnnots)
        /\ \A j \in 1..Len(lbl_lines) :
              /\ lbl_lines[j].ann \in KnownAnnots
              /\ LET c == page_annots[lbl_lines[j].ann].category
                 IN lbl_lines[j].cid =
                        IF c = "signature" THEN 0
                        ELSE IF c = "stamp" THEN 1 ELSE 2
        /\ \A i, j \in 1..Len(lbl_lines) :
              i < j => lbl_lines[i].ann < lbl_lines[j].ann

\* a page with an unknown category between a qr and a stamp annotation
C20_Witness ==
    /\ lbl_pc = "written"
    /\ Len(page_annots) = 3
    /\ page_annots[1].category = "qr"
    /\ page_annots[2].category = "logo"
    /\ page_annots[3].category = "stamp"
    /\ Len(lbl_lines) = 2

----------------------------------------------------------------------------
(* make_tiles with a decimal overlap_ratio *)

DefaultTileSize == 1024   \* tile_size default of make_tiles
RatioSpan == 4      \* image sides range over 2000-RatioSpan..2000+RatioSpan
RatioTenths == 2    \* overlap_ratio ranges over 0/10..RatioTenths/10

\* the double nearest to k/10
Tenths(k) == FDiv(FFromInt(k), FFromInt(10))

\* stride = int(tile_size * (1 - overlap_ratio)) in doubles
StrideOfRatio(ts, ratio) ==
    FTrunc(FMul(FFromInt(ts), FSub(FFromInt(1), ratio)))

InitTileRatio ==
    /\ img_h \in (2000 - RatioSpan)..(2000 + RatioSpan)
    /\ img_w \in (2000 - RatioSpan)..(2000 + RatioSpan)
    /\ tile_size = DefaultTileSize
    /\ overlap_num = 0
    /\ overlap_ratio \in {Tenths(k) : k \in 0..RatioTenths}
    /\ tiles_pc = "call"
    /\ coords = <<>>
    /\ ClipIdle /\ ResizeIdle /\ BoxIdle /\ ExtIdle /\ Ext3Idle

\* make_tiles of src/tiling/tiler.py, overlap_ratio given as a double
MakeTilesSrcRatio ==
    /\ tiles_pc = "call"
    /\ LET stride == StrideOfRatio(tile_size, overlap_ratio)
       IN IF stride <= 0
          THEN /\ tiles_pc' = "src_error"
               /\ coords' = <<>>
          ELSE /\ tiles_pc' = "src_done"
               /\ coords' = SrcMakeTiles(img_h, img_w, tile_size, stride)
    /\ UNCHANGED <<img_h, img_w, tile_size, overlap_num, overlap_ratio>>

\* make_tiles of notebook_experiments/tiler.py, overlap_ratio as a double
MakeTilesNbRatio ==
    /\ tiles_pc = "call"
    /\ LET stride == StrideOfRatio(tile_size, overlap_ratio)
       IN IF stride <= 0
          THEN /\ tiles_pc' = "nb_error"
               /\ coords' = <<>>
          ELSE /\ tiles_pc' = "nb_done"
               /\ coords' = NbMakeTiles(img_h, img_w, tile_size, stride)
    /\ UNCHANGED <<img_h, img_w, tile_size, overlap_num, overlap_ratio>>

\* the call make_tiles(img, 1024, 0.2) on a 2000 x 2000 image has returned
TileScenario ==
    /\ tiles_pc \in {"src_done", "nb_done", "src_error", "nb_error"}
    /\ img_h = 2000 /\ img_w = 2000
    /\ tile_size = 1024
    /\ overlap_ratio = Tenths(2)

\* C21: with tile_size = 1024 and overlap_ratio = 0.2 the stride is 819, and
\* for a 2000 x 2000 image make_tiles emits tiles whose set of x origins is
\* exactly {0, 819, 976}, likewise for the y origins, the last tile ending
\* at x = 2000.
C21_TileScenario ==
    TileScenario =>
        /\ StrideOfRatio(tile_size, overlap_ratio) = 819
        /\ TilesDone
        /\ {coords[i][1] : i \in 1..Len(coords)} = {0, 819, 976}
        /\ {coords[i][2] : i \in 1..Len(coords)} = {0, 819, 976}
        /\ Len(coords) > 0
        /\ coords[Len(coords)][3] = 2000

----------------------------------------------------------------------------
(* resize_and_pad on page-sized images *)

DefaultTargetSize == 1024   \* target_size default of resize_and_pad
LargeSpan == 5      \* widths 2000-LargeSpan..2000+LargeSpan, heights
                    \* 1000-LargeSpan..1000+LargeSpan

InitResizeLarge ==
    /\ in_w \in (2000 - LargeSpan)..(2000 + LargeSpan)
    /\ in_h \in (1000 - LargeSpan)..(1000 + LargeSpan)
    /\ target_size = DefaultTargetSize
    /\ rp = [status |-> "call"]
    /\ BoxIdle /\ TileIdle /\ ClipIdle /\ ExtIdle /\ Ext2Idle

\* resize_and_pad returned for the 2000 x 1000 page at target_size 1024
ResizeScenario ==
    /\ rp.status # "call"
    /\ in_w = 2000 /\ in_h = 1000 /\ target_size = 1024

\* the numbers of the scenario
ResizeScenarioValues ==
    /\ rp.status = "ok"
    /\ rp.scale = FDiv(FFromInt(512), FFromInt(1000))
    /\ rp.new_w = 1024 /\ rp.new_h = 512
    /\ rp.pad_top = 256 /\ rp.pad_bottom = 256
    /\ rp.pad_left = 0 /\ rp.pad_right = 0

\* C22: the longer side of the image is scaled to exactly target_size and
\* gets no padding on its axis, the shorter side is padded evenly (up to the
\* odd pixel); the 2000 x 1000 page at target_size 1024 gives scale 0.512,
\* new_w = 1024, new_h = 512, pad_top = pad_bottom = 256, pad_left =
\* pad_right = 0.
C22_LongerSideExact ==
    /\ rp.status = "ok" =>
          /\ in_w >= in_h =>
                /\ rp.new_w = target_size
                /\ rp.pad_left = 0 /\ rp.pad_right = 0
                /\ rp.pad_bottom - rp.pad_top \in {0, 1}
          /\ in_h >= in_w =>
                /\ rp.new_h = target_size
                /\ rp.pad_top = 0 /\ rp.pad_bottom = 0
                /\ rp.pad_right - rp.pad_left \in {0, 1}
    /\ ResizeScenario => ResizeScenarioValues

----------------------------------------------------------------------------
(* clip_bbox on page-sized squares *)

DefaultClipSize == 1024   \* size default of clip_bbox
ClipScnSpan == 2    \* boxes within ClipScnSpan half-units of (-5, 1020, 50, 50)

ClipScnBox == <<Half(0 - 5), Half(1020), Half(50), Half(50)>>

InitClipLarge ==
    /\ size = DefaultClipSize
    /\ bbox \in {<<ClipScnBox[1] + a, ClipScnBox[2] + b,
                   ClipScnBox[3] + c, ClipScnBox[4] + d>> :
                    <<a, b, c, d>> \in
                        ((0 - ClipScnSpan)..ClipScnSpan)
                            \X ((0 - ClipScnSpan)..ClipScnSpan)
                            \X ((0 - ClipScnSpan)..ClipScnSpan)
                            \X ((0 - ClipScnSpan)..ClipScnSpan)}
    /\ clipped = <<>>
    /\ clipped2 = <<>>
    /\ clip_pc = "call"
    /\ TileIdle /\ ResizeIdle /\ BoxIdle /\ ExtIdle /\ Ext2Idle

\* C23: clip_bbox limits the width and the height against the clamped origin
\* only, w = max(1, min(w, size - x_clamped)), without shrinking them by the
\* amount the origin was moved: the box (-5, 1020, 50, 50) at size 1024 is
\* clipped to (0, 1020, 50, 4).
C23_ClipScenario ==
    clip_pc = "clipped" =>
        /\ clipped[3] = Max(Half(1), Min(bbox[3], Half(size) - clipped[1]))
        /\ clipped[4] = Max(Half(1), Min(bbox[4], Half(size) - clipped[2]))
        /\ (bbox = ClipScnBox /\ size = 1024) =>
              clipped = <<0, Half(1020), Half(50), Half(4)>>

\* the box of the scenario, clipped: its origin was moved by 5 and its width
\* is still 50
C23_Witness ==
    /\ clip_pc = "clipped"
    /\ size = 1024
    /\ bbox = ClipScnBox
    /\ clipped[1] - bbox[1] = Half(5)
    /\ clipped[3] = bbox[3]

----------------------------------------------------------------------------
(* Stratified train/val split of build_yolo_dataset, build_yolo_dataset_raw *)

MaxRecords == 3     \* the first MaxRecords records may carry classes
MaxSplitN == 10     \* up to MaxSplitN records in a dataset
SplitRatioSpan == 3 \* train_ratio ranges over the last SplitRatioSpan tenths

\* the record lists of n records, record i being the i-th preprocessed image
\* in glob order with the classes of its page: any classes in a short list;
\* in a longer one the first MaxRecords pages show a signature or nothing and
\* the others nothing
RecordLists(n) ==
    IF n <= MaxRecords
    THEN {[i \in 1..n |-> [id |-> i, classes |-> f[i]]] :
              f \in [1..n -> SUBSET (DOMAIN CLASS_MAP)]}
    ELSE {[i \in 1..n |->
              [id |-> i,
               classes |-> IF i <= MaxRecords THEN f[i] ELSE {}]] :
              f \in [1..MaxRecords -> {{}, {"signature"}}]}

\* the orders random.shuffle may leave n records in: every order of a short
\* list, the given and the reversed order of a longer one
ShuffleOrders(n) ==
    IF n <= MaxRecords
    THEN {p \in [1..n -> 1..n] : \A i, j \in 1..n : p[i] = p[j] => i = j}
    ELSE {[i \in 1..n |-> i], [i \in 1..n |-> n + 1 - i]}

\* target_val_images = max(1, int(N * (1 - train_ratio)))
TargetValImages(N, ratio) ==
    Max(1, FTrunc(FMul(FFromInt(N), FSub(FFromInt(1), ratio))))

\* img_class_counts[c]: the records whose page shows class c
ImgClassCount(recs, c) ==
    Cardinality({i \in 1..Len(recs) : c \in recs[i].classes})

\* target_val_per_class[c], for a class c that occurs:
\* max(1, int(round(target_val_images * (count / N))))
TargetValPerClass(recs, c, tvi) ==
    Max(1, PyRound(FMul(FFromInt(tvi),
                        FDiv(FFromInt(ImgClassCount(recs, c)),
                             FFromInt(Len(recs))))))

\* val_class_counts[c]: the records put into val so far that show class c
ValClassCount(recs, val, c) ==
    Cardinality({j \in val : c \in recs[j].classes})

\* the first loop: a record enters val when one of its classes is still below
\* its target (tpc); the loop ends when val has target_val_images records
RECURSIVE GreedyVal(_, _, _, _, _)
GreedyVal(recs, i, val, tvi, tpc) ==
    IF i > Len(recs) \/ Cardinality(val) >= tvi THEN val
    ELSE IF recs[i].classes = {} THEN GreedyVal(recs, i + 1, val, tvi, tpc)
    ELSE IF \E c \in recs[i].classes :
                ValClassCount(recs, val, c) < tpc[CLASS_MAP[c] + 1]
         THEN GreedyVal(recs, i + 1, val \cup {i}, tvi, tpc)
         ELSE GreedyVal(recs, i + 1, val, tvi, tpc)

\* the second loop: val is filled up with the first records not yet in it
RECURSIVE FillVal(_, _, _, _)
FillVal(recs, i, val, tvi) ==
    IF i > Len(recs) \/ Cardinality(val) >= tvi THEN val
    ELSE IF i \in val THEN FillVal(recs, i + 1, val, tvi)
    ELSE FillVal(recs, i + 1, val \cup {i}, tvi)

\* val_indices for records in shuffled order; the per-class targets are kept
\* in the order of the class ids, 0 standing for a class that does not occur
StratifiedSplit(recs, tvi) ==
    LET target(c) == IF ImgClassCount(recs, c) = 0 THEN 0
                     ELSE TargetValPerClass(recs, c, tvi)
        tpc == <<target("signature"), target("stamp"), target("qr")>>
    IN FillVal(recs, 1, GreedyVal(recs, 1, {}, tvi, tpc), tvi)

SplitOf(i, val) == IF i \in val THEN "val" ELSE "train"

InitSplit ==
    /\ \E n \in 0..MaxSplitN : records \in RecordLists(n)
    /\ train_ratio \in {Tenths(k) : k \in (10 - SplitRatioSpan)..9}
    /\ val_indices = {}
    /\ img_files = {}
    /\ lbl_files = {}
    /\ split_pc = "call"
    /\ TileIdle /\ ClipIdle /\ ResizeIdle /\ BoxIdle /\ ExtIdle
    /\ RatioIdle /\ Ext4Idle

\* no valid record: the builder prints a message and returns
BuildAbort ==
    /\ split_pc = "call"
    /\ records = <<>>
    /\ split_pc' = "aborted"
    /\ UNCHANGED <<records, train_ratio, val_indices, img_files, lbl_files>>

\* the records are shuffled, val is chosen, and every record's image and
\* label file are written under its split
BuildSplit ==
    /\ split_pc = "call"
    /\ records # <<>>
    /\ \E p \in ShuffleOrders(Len(records)) :
       \E tvi \in {TargetValImages(Len(records), train_ratio)} :
       \E recs \in {[i \in 1..Len(records) |-> records[p[i]]]} :
       \E val \in {StratifiedSplit(recs, tvi)} :
          /\ records' = recs
          /\ val_indices' = val
          /\ img_files' = {<<SplitOf(i, val), recs[i].id>> :
                               i \in 1..Len(recs)}
          /\ lbl_files' = {<<SplitOf(i, val), recs[i].id>> :
                               i \in 1..Len(recs)}
    /\ split_pc' = "written"
    /\ UNCHANGED train_ratio

ClassesPresent == {c \in DOMAIN CLASS_MAP : ImgClassCount(records, c) > 0}

Covers(S) == \A c \in ClassesPresent : \E i \in S : c \in records[i].classes

CoveringValExists ==
    \E S \in SUBSET (1..Len(records)) :
        /\ Cardinality(S) = TargetValImages(Len(records), train_ratio)
        /\ Covers(S)

\* C24: for every shuffle order, whenever some validation set of size
\* target_val_images contains every class present in the dataset, the
\* validation set chosen contains an image of each class present.
C24_ValCoversClasses ==
    (split_pc = "written" /\ CoveringValExists) => Covers(val_indices)


\* train_ratio as a number of tenths
TenthsTable ==
    <<Tenths(0), Tenths(1), Tenths(2), Tenths(3), Tenths(4), Tenths(5),
      Tenths(6), Tenths(7), Tenths(8), Tenths(9), Tenths(10)>>
RatioTenthsOf == CHOOSE k \in 0..10 : TenthsTable[k + 1] = train_ratio

SplitsOfImage(id) == {s \in {"train", "val"} : <<s, id>> \in img_files}
SplitsOfLabel(id) == {s \in {"train", "val"} : <<s, id>> \in lbl_files}

\* every record has its image and its label file in exactly one split, the
\* same for both
SplitIsPartition ==
    \A i \in 1..Len(records) :
        /\ Cardinality(SplitsOfImage(records[i].id)) = 1
        /\ SplitsOfLabel(records[i].id) = SplitsOfImage(records[i].id)

ValRecords == {i \in 1..Len(records) : <<"val", records[i].id>> \in img_files}
TrainRecords ==
    {i \in 1..Len(records) : <<"train", records[i].id>> \in img_files}

\* min(N, max(1, floor(N * (1 - train_ratio)))) in exact arithmetic
ExactValCount(N, tenths) == Min(N, Max(1, (N * (10 - tenths)) \div 10))

SplitHasTargetSize ==
    Cardinality(ValRecords) = ExactValCount(Len(records), RatioTenthsOf)

BothSplitsNonEmpty ==
    (Len(records) >= 2 /\ RatioTenthsOf \in 1..9) =>
        (ValRecords # {} /\ TrainRecords # {})

\* C25: for N >= 1 records and any shuffle order, every record's image and
\* label file are written to exactly one of train and val, both to the same,
\* the number of val records is min(N, max(1, floor(N * (1 - train_ratio)))),
\* and for N >= 2 and 0 < train_ratio < 1 both splits are non-empty.
C25_SplitPartition ==
    split_pc = "written" =>
        /\ SplitIsPartition
        /\ SplitHasTargetSize
        /\ BothSplitsNonEmpty

----------------------------------------------------------------------------
(* preprocess_all_pages *)

MaxPages == 2       \* up to MaxPages page images in the source directory
PageMaxDim == 3     \* page sides range over 1..PageMaxDim
PageMaxTarget == 3  \* target_size ranges over 2..PageMaxTarget

\* a page file of the source directory: one cv2.imdecode cannot read, or an
\* image of h x w pixels
PageFiles ==
    {[readable |-> FALSE, h |-> 0, w |-> 0]}
        \cup {[readable |-> TRUE, h |-> h, w |-> w] :
                 h \in 1..PageMaxDim, w \in 1..PageMaxDim}

InitPages ==
    /\ \E n \in 0..MaxPages : pages \in [1..n -> PageFiles]
    /\ pre_target \in 2..PageMaxTarget
    /\ page_k = 1
    /\ out_dir = {}
    /\ metadata = <<>>
    /\ meta_json = [exists |-> FALSE]
    /\ pre_pc = "loop"
    /\ TileIdle /\ ClipIdle /\ ResizeIdle /\ BoxIdle /\ ExtIdle
    /\ RatioIdle /\ SplitIdle /\ Ext5Idle

\* the metadata entry of a page that was resized
PageMeta(page, r, T) ==
    [scale |-> r.scale, pad_left |-> r.pad_left, pad_top |-> r.pad_top,
     orig_width |-> page.w, orig_height |-> page.h, target_size |-> T]

\* load_rgb and resize_and_pad on a page: load_rgb raises FileNotFoundError on
\* a file it cannot decode
LoadAndResize(page, T) ==
    IF page.readable THEN ResizeAndPad(page.h, page.w, T)
    ELSE [status |-> "FileNotFoundError"]

\* one pass of the loop: a page that loads and resizes is saved under its name
\* and its entry is put into the metadata dict; an exception of load_rgb or
\* of resize_and_pad ends the run
PreprocessPage ==
    /\ pre_pc = "loop"
    /\ page_k <= Len(pages)
    /\ \E r \in {LoadAndResize(pages[page_k], pre_target)} :
          IF r.status = "ok"
          THEN /\ out_dir' = out_dir \cup {page_k}
               /\ metadata' =
                      (page_k :> PageMeta(pages[page_k], r, pre_target))
                          @@ metadata
               /\ page_k' = page_k + 1
               /\ UNCHANGED pre_pc
          ELSE /\ pre_pc' = "error"
               /\ UNCHANGED <<page_k, out_dir, metadata>>
    /\ UNCHANGED <<pages, pre_target, meta_json>>

\* after the loop the metadata dict is dumped to preprocess_meta_<split>.json
SaveMetadata ==
    /\ pre_pc = "loop"
    /\ page_k > Len(pages)
    /\ meta_json' = [exists |-> TRUE, entries |-> metadata]
    /\ pre_pc' = "done"
    /\ UNCHANGED <<pages, pre_target, page_k, out_dir, metadata>>

PersistedNames ==
    IF meta_json.exists THEN DOMAIN meta_json.entries ELSE {}

\* C26: in every state in which the run has ended, normally or by an error on
\* a later page, each preprocessed image written to the output directory has
\* its TransformMetadata entry in the persisted metadata JSON.
C26_WrittenPagesPersisted ==
    pre_pc \in {"done", "error"} => out_dir \subseteq PersistedNames

----------------------------------------------------------------------------
(* One label line of build_yolo_dataset *)

TargetStep == 256   \* target sizes are multiples of TargetStep
MaxTargetSteps == 6 \* target_size ranges over TargetStep * 1..MaxTargetSteps

DefaultYoloSize == 1024   \* size default of xywh_to_yolo

\* f"{a:.6f}" of a double a, as the number of millionths printed: the exact
\* value of a times 10^6, rounded to the nearest integer
Fmt6(a) == PyRound(DMul(a, FFromInt(1000000)))

\* boxes of a T x T preprocessed image with corners on its quarter grid, in
\* half-pixel units
QuarterBoxes(T) ==
    {<<Half((T \div 4) * x), Half((T \div 4) * y),
       Half((T \div 4) * w), Half((T \div 4) * h)>> :
        <<x, y, w, h>> \in
            {q \in (0..3) \X (0..3) \X (1..4) \X (1..4) :
                q[1] + q[3] <= 4 /\ q[2] + q[4] <= 4}}

\* meta is the entry preprocess_all_pages recorded for the page, box_p the box
\* convert_orig_to_preprocessed returned
InitLine ==
    /\ meta_target \in {TargetStep * k : k \in 1..MaxTargetSteps}
    /\ box_p \in QuarterBoxes(meta_target)
    /\ label_line = <<>>
    /\ line_pc = "converted"
    /\ TileIdle /\ ClipIdle /\ ResizeIdle /\ BoxIdle /\ ExtIdle
    /\ RatioIdle /\ SplitIdle /\ PageIdle /\ Ext6Idle

\* clip_bbox(x_p, y_p, w_p, h_p), xywh_to_yolo(x_p, y_p, w_p, h_p) and the
\* line written with six decimals; both calls leave size at its default
WriteLabelLine ==
    /\ line_pc = "converted"
    /\ \E yl \in {XywhToYolo(ClipBbox(box_p, DefaultClipSize),
                             DefaultYoloSize)} :
          label_line' = <<Fmt6(yl[1]), Fmt6(yl[2]), Fmt6(yl[3]), Fmt6(yl[4])>>
    /\ line_pc' = "written"
    /\ UNCHANGED <<meta_target, box_p>>

WholeImageBox == <<0, 0, Half(meta_target), Half(meta_target)>>

\* C27: each box is clipped and normalised relative to meta.target_size: for
\* every target_size T of preprocess_all_pages, a box covering the whole T x T
\* preprocessed image is written with centre (0.5, 0.5) and normalised width
\* and height 1.
C27_WholeBoxNormalised ==
    (line_pc = "written" /\ box_p = WholeImageBox) =>
        label_line = <<500000, 500000, 1000000, 1000000>>

----------------------------------------------------------------------------
(* One label line of build_yolo_dataset_raw *)

RawMaxImg == 2      \* PNG sides range over 1..RawMaxImg
RawMaxPage == 2     \* page_size sides range over 1..RawMaxPage
RawMaxCoord == 2    \* box origin in 0..RawMaxCoord, box sides 1..RawMaxCoord

\* img_shape is (h_img, w_img) of the page's PNG, page_size the page_size of
\* the annotation JSON where the page has one, raw_bbox the annotation's box
InitRaw ==
    /\ img_shape \in (1..RawMaxImg) \X (1..RawMaxImg)
    /\ page_size \in {[given |-> FALSE]}
                         \cup {[given |-> TRUE, width |-> pw, height |-> ph] :
                                  pw \in 1..RawMaxPage, ph \in 1..RawMaxPage}
    /\ raw_bbox \in (0..RawMaxCoord) \X (0..RawMaxCoord)
                        \X (1..RawMaxCoord) \X (1..RawMaxCoord)
    /\ raw_line = <<>>
    /\ raw_pc = "call"
    /\ TileIdle /\ ClipIdle /\ ResizeIdle /\ BoxIdle /\ ExtIdle
    /\ RatioIdle /\ SplitIdle /\ PageIdle /\ LineIdle /\ Ext7Idle

\* sx = w_img / pw and sy = h_img / ph, or 1.0 for a page without page_size
RawScale(n_img, given, n_page) ==
    IF given THEN FDiv(FFromInt(n_img), FFromInt(n_page)) ELSE FFromInt(1)

\* (c * s + (d * s) / 2) / n_img: the centre along one axis
RawCentre(c, d, s, n_img) ==
    FDiv(FAdd(FMul(FFromInt(c), s), FDiv(FMul(FFromInt(d), s), FFromInt(2))),
         FFromInt(n_img))

\* (d * s) / n_img: the extent along one axis
RawExtent(d, s, n_img) == FDiv(FMul(FFromInt(d), s), FFromInt(n_img))

\* the label line of one annotation: the box is scaled to the PNG and divided
\* by the PNG's sides, and written with six decimals
WriteRawLine ==
    /\ raw_pc = "call"
    /\ \E sx \in {RawScale(img_shape[2], page_size.given,
                           IF page_size.given THEN page_size.width ELSE 1)} :
       \E sy \in {RawScale(img_shape[1], page_size.given,
                           IF page_size.given THEN page_size.height ELSE 1)} :
          raw_line' =
              <<Fmt6(RawCentre(raw_bbox[1], raw_bbox[3], sx, img_shape[2])),
                Fmt6(RawCentre(raw_bbox[2], raw_bbox[4], sy, img_shape[1])),
                Fmt6(RawExtent(raw_bbox[3], sx, img_shape[2])),
                Fmt6(RawExtent(raw_bbox[4], sy, img_shape[1]))>>
    /\ raw_pc' = "written"
    /\ UNCHANGED <<img_shape, page_size, raw_bbox>>

\* C28: every label line written by build_yolo_dataset_raw has centre-x,
\* centre-y, width and height within [0, 1], for every annotation box and
\* page_size, boxes that extend past the page and pages without page_size
\* included.
C28_RawLineInUnitInterval ==
    raw_pc = "written" =>
        \A i \in 1..4 : raw_line[i] >= 0 /\ raw_line[i] <= 1000000

----------------------------------------------------------------------------
(* resize_and_pad on pages of an extreme aspect ratio *)

ExtremeSpan == 5    \* heights 1..ExtremeSpan, widths within ExtremeSpan of 5000

InitResizeExtreme ==
    /\ in_h \in 1..ExtremeSpan
    /\ in_w \in (5000 - ExtremeSpan)..(5000 + ExtremeSpan)
    /\ target_size = DefaultTargetSize
    /\ rp = [status |-> "call"]
    /\ BoxIdle /\ TileIdle /\ ClipIdle /\ ExtIdle /\ Ext2Idle

\* C29: resize_and_pad succeeds for every image with H >= 1 and W >= 1 and
\* every T >= 1: the truncated dimensions satisfy new_h >= 1 and new_w >= 1
\* and a T x T image is produced, also for extreme aspect ratios such as
\* H = 1, W = 5000, T = 1024.
C29_ResizeSucceeds ==
    (rp.status # "call" /\ in_h >= 1 /\ in_w >= 1 /\ target_size >= 1) =>
        /\ rp.new_h >= 1
        /\ rp.new_w >= 1
        /\ rp.status = "ok"
        /\ rp.out_h = target_size
        /\ rp.out_w = target_size

----------------------------------------------------------------------------
(* /analyze and /docs/{doc_id}/report *)

MaxDocs == 2        \* at most MaxDocs uploads get a doc_id
MaxPdfPages == 2    \* an uploaded PDF has 1..MaxPdfPages pages

\* the one page build_summary_page draws; the pages of an upload are 1, 2, ...
SummaryPage == 0

\* an uploaded PDF: its pages in order, whether fitz renders it (pdf_to_images)
\* and whether pypdf parses it (PdfReader)
PdfUploads ==
    {[pages |-> [i \in 1..n |-> i], renders |-> r, parses |-> p] :
        n \in 1..MaxPdfPages, r \in BOOLEAN, p \in BOOLEAN}

NoPdf == [pages |-> <<>>, renders |-> FALSE, parses |-> FALSE]

\* runtime_data/<doc_id>: source.pdf, result.json, summary.pdf and
\* <doc_id>_report.pdf
EmptyDir ==
    [exists |-> FALSE, source |-> FALSE, pdf |-> NoPdf, result |-> FALSE,
     summary |-> FALSE, report |-> <<>>]

\* what was uploaded under a doc_id, and whether its analysis completed
NoUpload == [kind |-> "none", pdf |-> NoPdf, completed |-> FALSE]

InitReport ==
    /\ next_doc = 1
    /\ store = [d \in 1..MaxDocs |-> EmptyDir]
    /\ uploads = [d \in 1..MaxDocs |-> NoUpload]
    /\ response = [op |-> "none"]
    /\ TileIdle /\ ClipIdle /\ ResizeIdle /\ BoxIdle /\ ExtIdle
    /\ RatioIdle /\ SplitIdle /\ PageIdle /\ LineIdle /\ RawIdle

\* /analyze with an empty filename: 400 before a doc_id is made
AnalyzeNoFilename ==
    /\ response' = [op |-> "analyze", doc_id |-> 0, status |-> 400,
                    body |-> <<>>]
    /\ UNCHANGED <<next_doc, store, uploads>>

\* /analyze with a suffix that is neither .pdf nor an image suffix: the
\* directory of the new doc_id exists already when 400 is raised
AnalyzeUnsupported ==
    /\ next_doc <= MaxDocs
    /\ store' = [store EXCEPT ![next_doc].exists = TRUE]
    /\ uploads' = [uploads EXCEPT ![next_doc].kind = "other"]
    /\ response' = [op |-> "analyze", doc_id |-> next_doc, status |-> 400,
                    body |-> <<>>]
    /\ next_doc' = next_doc + 1

\* /analyze of a .pdf upload: source.pdf is saved, the pages are rendered and
\* run through the detector, then result.json is written; an exception of
\* pdf_to_images or of run_yolo_on_image ends the request before that
AnalyzePdf ==
    /\ next_doc <= MaxDocs
    /\ \E pdf \in PdfUploads, yolo_ok \in BOOLEAN :
          LET done == pdf.renders /\ yolo_ok
          IN /\ store' = [store EXCEPT ![next_doc] =
                            [@ EXCEPT !.exists = TRUE, !.source = TRUE,
                                      !.pdf = pdf, !.result = done]]
             /\ uploads' = [uploads EXCEPT ![next_doc] =
                               [kind |-> "pdf", pdf |-> pdf,
                                completed |-> done]]
             /\ response' = [op |-> "analyze", doc_id |-> next_doc,
                             status |-> IF done THEN 200 ELSE 500,
                             body |-> <<>>]
    /\ next_doc' = next_doc + 1

\* /analyze of an image upload: pages/page_001.png is saved and run through
\* the detector, then result.json is written; there is no source.pdf
AnalyzeImage ==
    /\ next_doc <= MaxDocs
    /\ \E yolo_ok \in BOOLEAN :
          /\ store' = [store EXCEPT ![next_doc] =
                         [@ EXCEPT !.exists = TRUE, !.result = yolo_ok]]
          /\ uploads' = [uploads EXCEPT ![next_doc] =
                            [kind |-> "image", pdf |-> NoPdf,
                             completed |-> yolo_ok]]
          /\ response' = [op |-> "analyze", doc_id |-> next_doc,
                          status |-> IF yolo_ok THEN 200 ELSE 500,
                          body |-> <<>>]
    /\ next_doc' = next_doc + 1

\* the pages the PdfWriter collects: those of summary.pdf, then those of
\* source.pdf
\* (variant: the original pages first)
ReportPagesOriginalFirst(pdf) == pdf.pages \o <<SummaryPage>>
ReportPages(pdf) == <<SummaryPage>> \o pdf.pages

\* /docs/{doc_id}/report: 404 without result.json or without source.pdf; else
\* summary.pdf is built, the report is written and summary.pdf is removed. An
\* exception of PdfReader (before summary.pdf is built) or of the report's
\* write (after) ends the request with 500.
DownloadReport ==
    /\ \E d \in 1..MaxDocs, write_ok \in BOOLEAN :
          IF ~store[d].result \/ ~store[d].source
          THEN /\ response' = [op |-> "report", doc_id |-> d, status |-> 404,
                               body |-> <<>>]
               /\ UNCHANGED store
          ELSE IF ~store[d].pdf.parses
          THEN /\ response' = [op |-> "report", doc_id |-> d, status |-> 500,
                               body |-> <<>>]
               /\ UNCHANGED store
          ELSE IF ~write_ok
          THEN /\ response' = [op |-> "report", doc_id |-> d, status |-> 500,
                               body |-> <<>>]
               /\ store' = [store EXCEPT ![d].summary = TRUE]
          ELSE /\ response' = [op |-> "report", doc_id |-> d, status |-> 200,
                               body |-> ReportPages(store[d].pdf)]
               /\ store' = [store EXCEPT
                               ![d].summary = FALSE,
                               ![d].report = ReportPages(store[d].pdf)]
    /\ UNCHANGED <<next_doc, uploads>>

ReportAnswered == response.op = "report"

\* C30: in every sequence of /analyze and report requests, a report request
\* returns a PDF only if an earlier /analyze for that doc_id ran to completion
\* on a PDF upload (result.json and source.pdf both stored); it returns 404
\* for an unknown id, for an analysis that failed before result.json was
\* written and for every analysed image upload; a successful report is the
\* summary page followed by all pages of the original PDF in order, and
\* summary.pdf no longer exists afterwards.
C30_ReportAfterPdfAnalysis ==
    ReportAnswered =>
        LET d == response.doc_id
            up == uploads[d]
        IN /\ response.status = 200 =>
                 /\ up.kind = "pdf" /\ up.completed
                 /\ store[d].result /\ store[d].source
                 /\ response.body = <<0>> \o up.pdf.pages
                 /\ ~store[d].summary
           /\ up.kind = "none" => response.status = 404
           /\ ~up.completed => response.status = 404
           /\ up.kind = "image" => response.status = 404

\* the report of a two-page PDF, requested after an image upload was analysed
C30_Witness ==
    /\ ReportAnswered
    /\ response.status = 200
    /\ Len(response.body) = 3
    /\ \E d \in 1..MaxDocs : uploads[d].kind = "image" /\ uploads[d].completed

----------------------------------------------------------------------------
(* Specifications *)

NextTile ==
    \/ MakeTilesSrc /\ UNCHANGED <<clipVars, resizeVars, boxVars, extVars, ext2Vars>>
    \/ MakeTilesNb /\ UNCHANGED <<clipVars, resizeVars, boxVars, extVars, ext2Vars>>
SpecTile == InitTile /\ [][NextTile]_vars

NextClip ==
    \/ Clip /\ UNCHANGED <<tileVars, resizeVars, boxVars, extVars, ext2Vars>>
    \/ ClipAgain /\ UNCHANGED <<tileVars, resizeVars, boxVars, extVars, ext2Vars>>
SpecClip == InitClip /\ [][NextClip]_vars

NextResize ==
    ResizeAndPadCall /\ UNCHANGED <<tileVars, clipVars, boxVars, extVars, ext2Vars>>
SpecResize == InitResize /\ [][NextResize]_vars

NextConvert ==
    Convert /\ UNCHANGED <<tileVars, clipVars, resizeVars, extVars, ext2Vars>>
SpecConvert == InitConvert /\ [][NextConvert]_vars

NextRoundTrip ==
    \/ ResizeAndPadCall /\ UNCHANGED <<tileVars, clipVars, boxVars, extVars, ext2Vars>>
    \/ RecordMeta /\ UNCHANGED <<tileVars, clipVars, resizeVars, extVars, ext2Vars>>
    \/ Convert /\ UNCHANGED <<tileVars, clipVars, resizeVars, extVars, ext2Vars>>
SpecRoundTrip == InitRoundTrip /\ [][NextRoundTrip]_vars

NextYolo ==
    \/ Clip /\ UNCHANGED <<tileVars, resizeVars, boxVars, extVars, ext2Vars>>
    \/ XywhToYoloCall
         /\ UNCHANGED <<tileVars, resizeVars, boxVars, detVars, fullVars,
                        lblVars, ext2Vars>>
SpecYolo == InitYolo /\ [][NextYolo]_vars

NextDetect ==
    \/ RunYoloApi
         /\ UNCHANGED <<tileVars, clipVars, resizeVars, boxVars, yoloVars,
                        fullVars, lblVars, ext2Vars>>
    \/ RunYoloBatch
         /\ UNCHANGED <<tileVars, clipVars, resizeVars, boxVars, yoloVars,
                        fullVars, lblVars, ext2Vars>>
SpecDetect == InitDetect /\ [][NextDetect]_vars

NextMeta ==
    \/ ResizeAndPadCall /\ UNCHANGED <<tileVars, clipVars, boxVars, extVars, ext2Vars>>
    \/ RecordMeta /\ UNCHANGED <<tileVars, clipVars, resizeVars, extVars, ext2Vars>>
SpecMeta == InitMeta /\ [][NextMeta]_vars

NextFull ==
    TileBoxToFullCall
        /\ UNCHANGED <<tileVars, clipVars, resizeVars, boxVars, yoloVars,
                       detVars, lblVars, ext2Vars>>
SpecFull == InitFull /\ [][NextFull]_vars

NextLabels ==
    \/ WriteLabels
         /\ UNCHANGED <<tileVars, clipVars, resizeVars, boxVars, yoloVars,
                        detVars, fullVars, ext2Vars>>
    \/ WriteLabelsRaw
         /\ UNCHANGED <<tileVars, clipVars, resizeVars, boxVars, yoloVars,
                        detVars, fullVars, ext2Vars>>
SpecLabels == InitLabels /\ [][NextLabels]_vars

NextTileRatio ==
    \/ MakeTilesSrcRatio
         /\ UNCHANGED <<clipVars, resizeVars, boxVars, extVars, ext3Vars>>
    \/ MakeTilesNbRatio
         /\ UNCHANGED <<clipVars, resizeVars, boxVars, extVars, ext3Vars>>
SpecTileRatio == InitTileRatio /\ [][NextTileRatio]_vars

NextResizeLarge ==
    ResizeAndPadCall
        /\ UNCHANGED <<tileVars, clipVars, boxVars, extVars, ext2Vars>>
SpecResizeLarge == InitResizeLarge /\ [][NextResizeLarge]_vars

NextClipLarge ==
    \/ Clip /\ UNCHANGED <<tileVars, resizeVars, boxVars, extVars, ext2Vars>>
    \/ ClipAgain
         /\ UNCHANGED <<tileVars, resizeVars, boxVars, extVars, ext2Vars>>
SpecClipLarge == InitClipLarge /\ [][NextClipLarge]_vars

NextSplit ==
    \/ BuildAbort
         /\ UNCHANGED <<tileVars, clipVars, resizeVars, boxVars, extVars,
                        ratioVars, ext4Vars>>
    \/ BuildSplit
         /\ UNCHANGED <<tileVars, clipVars, resizeVars, boxVars, extVars,
                        ratioVars, ext4Vars>>
SpecSplit == InitSplit /\ [][NextSplit]_vars

NextPages ==
    \/ PreprocessPage
         /\ UNCHANGED <<tileVars, clipVars, resizeVars, boxVars, extVars,
                        ratioVars, splitVars, ext5Vars>>
    \/ SaveMetadata
         /\ UNCHANGED <<tileVars, clipVars, resizeVars, boxVars, extVars,
                        ratioVars, splitVars, ext5Vars>>
SpecPages == InitPages /\ [][NextPages]_vars

NextLine ==
    WriteLabelLine
        /\ UNCHANGED <<tileVars, clipVars, resizeVars, boxVars, extVars,
                       ratioVars, splitVars, pageVars, ext6Vars>>
SpecLine == InitLine /\ [][NextLine]_vars

NextRaw ==
    WriteRawLine
        /\ UNCHANGED <<tileVars, clipVars, resizeVars, boxVars, extVars,
                       ratioVars, splitVars, pageVars, lineVars, ext7Vars>>
SpecRaw == InitRaw /\ [][NextRaw]_vars

NextResizeExtreme ==
    ResizeAndPadCall
        /\ UNCHANGED <<tileVars, clipVars, boxVars, extVars, ext2Vars>>
SpecResizeExtreme == InitResizeExtreme /\ [][NextResizeExtreme]_vars

NextReport ==
    \/ AnalyzeNoFilename
         /\ UNCHANGED <<tileVars, clipVars, resizeVars, boxVars, extVars,
                        ratioVars, splitVars, pageVars, lineVars, rawVars>>
    \/ AnalyzeUnsupported
         /\ UNCHANGED <<tileVars, clipVars, resizeVars, boxVars, extVars,
                        ratioVars, splitVars, pageVars, lineVars, rawVars>>
    \/ AnalyzePdf
         /\ UNCHANGED <<tileVars, clipVars, resizeVars, boxVars, extVars,
                        ratioVars, splitVars, pageVars, lineVars, rawVars>>
    \/ AnalyzeImage
         /\ UNCHANGED <<tileVars, clipVars, resizeVars, boxVars, extVars,
                        ratioVars, splitVars, pageVars, lineVars, rawVars>>
    \/ DownloadReport
         /\ UNCHANGED <<tileVars, clipVars, resizeVars, boxVars, extVars,
                        ratioVars, splitVars, pageVars, lineVars, rawVars>>
SpecReport == InitReport /\ [][NextReport]_vars

====
